---- MODULE Spec2Model ----
(***************************************************************************)
(* A model of the unified chat backend of the Hathor playground: the       *)
(* environment detector (api/environment_detector.py), the per-turn tool   *)
(* router UnifiedTools (api/unified_tools.py), the file store FileTools    *)
(* (api/ai_tools.py) and the turn handler unified_chat                     *)
(* (api/unified_chat.py).                                                  *)
(*                                                                         *)
(* A Python str is a sequence of code points; each code point is a one     *)
(* character string, and a code point outside ASCII is written "U+XXXX".   *)
(* A Python dict is a sequence of <<key, value>> pairs in insertion order. *)
(* None is the empty sequence and an object reference is a one-element     *)
(* sequence holding the object's fields.  A float confidence is written in *)
(* hundredths (0.95 is 95).                                                *)
(***************************************************************************)
EXTENDS Integers, Sequences, FiniteSets, TLC

VARIABLES
    pc,             \* where the handler of the request stands
    chat_request,   \* the request body: message, project_id, files
    env_context,    \* the EnvironmentContext of the turn (None before detection)
    unified_tools,  \* the UnifiedTools instance of the turn (None before construction)
    agent_tools,    \* names of the tools registered on the turn's Agent
    messages,       \* the tool parts of the messages of the agent's run, oldest first
    response,       \* the UnifiedChatResponse (None until the handler returns)
    file_tools,     \* a stand-alone FileTools instance (the FileTools specification)
    outcome,        \* how the last call of a specification of one component ended
    beam_service,   \* the process-wide BeamService instance (the sandbox specification)
    heap            \* the mappings of concurrent turns by identity (the specification of two turns)

vars == <<pc, chat_request, env_context, unified_tools, agent_tools, messages, response,
          file_tools, outcome, beam_service, heap>>

None == <<>>

-----------------------------------------------------------------------------
(* Bounds of the model *)

\* the most files a request carries
MaxFiles == 3

\* the most tool calls the agent makes in a turn
MaxCalls == 2

-----------------------------------------------------------------------------
(* Python str *)

\* s.startswith(prefix)
StartsWith(s, prefix) ==
    Len(s) >= Len(prefix) /\ SubSeq(s, 1, Len(prefix)) = prefix

\* s.endswith(suffix)
EndsWith(s, suffix) ==
    Len(s) >= Len(suffix) /\ SubSeq(s, Len(s) - Len(suffix) + 1, Len(s)) = suffix

\* sub in s
Contains(s, sub) ==
    \E i \in 0..(Len(s) - Len(sub)) : SubSeq(s, i + 1, i + Len(sub)) = sub

\* s.split(sep) for a one character separator: the list of pieces
RECURSIVE Split(_, _)
Split(s, sep) ==
    IF \A i \in 1..Len(s) : s[i] # sep
    THEN <<s>>
    ELSE LET i == CHOOSE k \in 1..Len(s) :
                      s[k] = sep /\ \A j \in 1..(k - 1) : s[j] # sep
         IN  <<SubSeq(s, 1, i - 1)>> \o Split(SubSeq(s, i + 1, Len(s)), sep)

\* sep.join(parts)
RECURSIVE Join(_, _)
Join(sep, parts) ==
    IF Len(parts) = 0 THEN <<>>
    ELSE IF Len(parts) = 1 THEN parts[1]
    ELSE parts[1] \o sep \o Join(sep, Tail(parts))

UpperLetters == <<"A","B","C","D","E","F","G","H","I","J","K","L","M","N","O","P","Q","R","S","T","U","V",
                  "W","X","Y","Z">>
LowerLetters == <<"a","b","c","d","e","f","g","h","i","j","k","l","m","n","o","p","q","r","s","t","u","v",
                  "w","x","y","z">>

\* s.lower()
Lower(s) ==
    [i \in 1..Len(s) |->
        IF \E k \in 1..Len(UpperLetters) : UpperLetters[k] = s[i]
        THEN LowerLetters[CHOOSE k \in 1..Len(UpperLetters) : UpperLetters[k] = s[i]]
        ELSE s[i]]

DecimalDigits == <<"0","1","2","3","4","5","6","7","8","9">>

\* str(n) of a natural number
RECURSIVE IntToStr(_)
IntToStr(n) ==
    IF n < 10 THEN <<DecimalDigits[n + 1]>>
    ELSE IntToStr(n \div 10) \o <<DecimalDigits[(n % 10) + 1]>>

\* the elements of a list, as a set
Range(seq) == {seq[i] : i \in 1..Len(seq)}


-----------------------------------------------------------------------------
(* Python dict, in insertion order *)

\* list(d.keys())
Keys(d) == [i \in 1..Len(d) |-> d[i][1]]

\* k in d
HasKey(d, k) == \E i \in 1..Len(d) : d[i][1] = k

\* d[k], for a key of d
Get(d, k) == d[CHOOSE i \in 1..Len(d) : d[i][1] = k][2]

\* d[k] = v: a key of d keeps its place, a new key goes last
Put(d, k, v) ==
    IF HasKey(d, k)
    THEN [i \in 1..Len(d) |-> IF d[i][1] = k THEN <<k, v>> ELSE d[i]]
    ELSE Append(d, <<k, v>>)

\* del d[k], for a key of d
Del(d, k) == SelectSeq(d, LAMBDA e : e[1] # k)

\* d.update(other)
RECURSIVE Update(_, _)
Update(d, other) ==
    IF Len(other) = 0 THEN d
    ELSE Update(Put(d, other[1][1], other[1][2]), Tail(other))

\* the mapping a dict stands for, whatever its insertion order
AsMap(d) == {<<d[i][1], d[i][2]>> : i \in 1..Len(d)}

\* the dicts of at most n entries with keys in K and values in V
DictsUpTo(K, V, n) ==
    UNION { { d \in [1..k -> K \X V] :
                \A i, j \in 1..k : d[i][1] = d[j][1] => i = j } : k \in 0..n }

-----------------------------------------------------------------------------
(* api/environment_detector.py *)

BLUEPRINT == "blueprint"
DAPP == "dapp"
MIXED == "mixed"
EMPTY == "empty"

EnvironmentType == {BLUEPRINT, DAPP, MIXED, EMPTY}

EnvironmentContext(env_type, confidence, blueprint_files, dapp_files, reason) ==
    [env_type |-> env_type, confidence |-> confidence,
     blueprint_files |-> blueprint_files, dapp_files |-> dapp_files,
     reason |-> reason]

blueprint_indicators_list ==
    << <<"f","r","o","m"," ","h","a","t","h","o","r",".","n","a","n","o","c","o","n","t","r","a",
         "c","t","s">>, <<"i","m","p","o","r","t"," ","h","a","t","h","o","r">>, <<"@","p","u","b","l","i","c">>, <<"@","v","i","e","w">>,
       <<"_","_","b","l","u","e","p","r","i","n","t","_","_">>, <<"B","l","u","e","p","r","i","n","t">>, <<"C","o","n","t","e","x","t">> >>

dapp_indicators_list ==
    << <<"n","e","x","t",".","c","o","n","f","i","g">>, <<"p","a","c","k","a","g","e",".","j","s","o","n">>, <<"t","a","i","l","w","i","n","d",".","c","o","n","f","i","g">>, <<"t","s","c","o","n","f","i","g",".","j","s","o","n">>,
       <<"i","m","p","o","r","t"," ","R","e","a","c","t">>, <<"e","x","p","o","r","t"," ","d","e","f","a","u","l","t">>, <<"u","s","e"," ","c","l","i","e","n","t">>, <<"u","s","e"," ","s","e","r","v","e","r">> >>

blueprint_keywords ==
    << <<"b","l","u","e","p","r","i","n","t">>, <<"c","o","n","t","r","a","c","t">>, <<"n","a","n","o"," ","c","o","n","t","r","a","c","t">>, <<"@","p","u","b","l","i","c">>, <<"@","v","i","e","w">>,
       <<"c","o","m","p","i","l","e">>, <<"h","a","t","h","o","r">>, <<"i","n","i","t","i","a","l","i","z","e">>, <<"m","e","t","h","o","d">>, <<"c","t","x">>, <<"c","o","n","t","e","x","t">> >>

dapp_keywords ==
    << <<"d","a","p","p">>, <<"d","-","a","p","p">>, <<"f","r","o","n","t","e","n","d">>, <<"n","e","x","t",".","j","s">>, <<"n","e","x","t","j","s">>, <<"r","e","a","c","t">>,
       <<"c","o","m","p","o","n","e","n","t">>, <<"p","a","g","e">>, <<"b","u","t","t","o","n">>, <<"u","i">>, <<"i","n","t","e","r","f","a","c","e">>, <<"s","t","y","l","e">>,
       <<"t","a","i","l","w","i","n","d">>, <<"a","p","p"," ","r","o","u","t","e","r">>, <<"b","o","o","t","s","t","r","a","p">> >>

\* sum(1 for kw in keywords if kw in text)
CountIn(keywords, text) ==
    Cardinality({i \in 1..Len(keywords) : Contains(text, keywords[i])})

\* any(indicator in content for indicator in indicators)
AnyIn(indicators, content) ==
    \E i \in 1..Len(indicators) : Contains(content, indicators[i])

\* Heuristic 1: the paths that count as blueprint files
\* IsBlueprintPath without /contracts/: the variant C5 is checked against
IsBlueprintPath_blueprints_only(path) ==
    StartsWith(path, <<"/","b","l","u","e","p","r","i","n","t","s","/">>) /\ EndsWith(path, <<".","p","y">>)

IsBlueprintPath(path) ==
    /\ StartsWith(path, <<"/","b","l","u","e","p","r","i","n","t","s","/">>) \/ StartsWith(path, <<"/","c","o","n","t","r","a","c","t","s","/">>)
    /\ EndsWith(path, <<".","p","y">>)

\* Heuristic 1: the paths that count as dApp files
\* IsDappPath on the sandbox root /app/: the variant C6 is checked against
IsDappPath_app_root(path) == StartsWith(path, <<"/","a","p","p","/">>)

IsDappPath(path) == StartsWith(path, <<"/","d","a","p","p","/">>)

\* Heuristic 3 with the side that has more keywords winning: the variant C16
\* is checked against
MessageIntent_by_majority(message) ==
    LET message_lower == Lower(message)
        blueprint_matches == CountIn(blueprint_keywords, message_lower)
        dapp_matches == CountIn(dapp_keywords, message_lower)
    IN  IF blueprint_matches > 0 /\ dapp_matches = blueprint_matches
        THEN <<EnvironmentContext(MIXED, 70, <<>>, <<>>,
                 <<"M","e","s","s","a","g","e"," ","m","e","n","t","i","o","n","s"," ","b","o","t","h"," ",
                   "b","l","u","e","p","r","i","n","t"," ","(">> \o IntToStr(blueprint_matches)
                 \o <<")"," ","a","n","d"," ","d","A","p","p"," ","(">> \o IntToStr(dapp_matches) \o <<")"," ","k","e","y","w","o","r","d","s">>)>>
        ELSE IF blueprint_matches > dapp_matches /\ blueprint_matches > 0
        THEN <<EnvironmentContext(BLUEPRINT, 70, <<>>, <<>>,
                 <<"M","e","s","s","a","g","e"," ","m","e","n","t","i","o","n","s"," ">> \o IntToStr(blueprint_matches)
                 \o <<" ","b","l","u","e","p","r","i","n","t","-","r","e","l","a","t","e","d"," ","k","e","y",
                      "w","o","r","d","(","s",")">>)>>
        ELSE IF dapp_matches > blueprint_matches /\ dapp_matches > 0
        THEN <<EnvironmentContext(DAPP, 70, <<>>, <<>>,
                 <<"M","e","s","s","a","g","e"," ","m","e","n","t","i","o","n","s"," ">> \o IntToStr(dapp_matches)
                 \o <<" ","d","A","p","p","-","r","e","l","a","t","e","d"," ","k","e","y","w","o","r","d","(",
                      "s",")">>)>>
        ELSE None

\* Heuristic 3: the verdict of the message, None when it gives none
MessageIntent(message) ==
    LET message_lower == Lower(message)
        blueprint_matches == CountIn(blueprint_keywords, message_lower)
        dapp_matches == CountIn(dapp_keywords, message_lower)
    IN  IF blueprint_matches > 0 /\ dapp_matches > 0
        THEN <<EnvironmentContext(MIXED, 70, <<>>, <<>>,
                 <<"M","e","s","s","a","g","e"," ","m","e","n","t","i","o","n","s"," ","b","o","t","h"," ",
                   "b","l","u","e","p","r","i","n","t"," ","(">> \o IntToStr(blueprint_matches)
                 \o <<")"," ","a","n","d"," ","d","A","p","p"," ","(">> \o IntToStr(dapp_matches) \o <<")"," ","k","e","y","w","o","r","d","s">>)>>
        ELSE IF blueprint_matches > dapp_matches /\ blueprint_matches > 0
        THEN <<EnvironmentContext(BLUEPRINT, 70, <<>>, <<>>,
                 <<"M","e","s","s","a","g","e"," ","m","e","n","t","i","o","n","s"," ">> \o IntToStr(blueprint_matches)
                 \o <<" ","b","l","u","e","p","r","i","n","t","-","r","e","l","a","t","e","d"," ","k","e","y",
                      "w","o","r","d","(","s",")">>)>>
        ELSE IF dapp_matches > blueprint_matches /\ dapp_matches > 0
        THEN <<EnvironmentContext(DAPP, 70, <<>>, <<>>,
                 <<"M","e","s","s","a","g","e"," ","m","e","n","t","i","o","n","s"," ">> \o IntToStr(dapp_matches)
                 \o <<" ","d","A","p","p","-","r","e","l","a","t","e","d"," ","k","e","y","w","o","r","d","(",
                      "s",")">>)>>
        ELSE None

\* Default: Empty/Unknown
DefaultContext ==
    EnvironmentContext(EMPTY, 50, <<>>, <<>>,
                       <<"N","o"," ","c","l","e","a","r"," ","i","n","d","i","c","a","t","o","r","s"," ","f","o",
                         "u","n","d",","," ","e","m","p","t","y"," ","p","r","o","j","e","c","t">>)

\* Heuristic 2 with the message asked before the contents: the variant C20
\* is checked against
ContentAnalysis_message_first(files, message) ==
    LET blueprint_indicators ==
            Cardinality({i \in 1..Len(files) :
                            AnyIn(blueprint_indicators_list, files[i][2])})
        dapp_indicators ==
            Cardinality({i \in 1..Len(files) :
                            AnyIn(dapp_indicators_list, files[i][2])})
    IN  IF message # <<>> /\ MessageIntent(message) # None
        THEN MessageIntent(message)[1]
        ELSE IF blueprint_indicators > 0 /\ dapp_indicators > 0
        THEN EnvironmentContext(MIXED, 85, Keys(files), Keys(files),
                 <<"F","o","u","n","d"," ","b","o","t","h"," ","H","a","t","h","o","r"," ","a","n","d"," ",
                   "N","e","x","t",".","j","s"," ","i","n","d","i","c","a","t","o","r","s"," ","i","n"," ",
                   "f","i","l","e"," ","c","o","n","t","e","n","t">>)
        ELSE IF blueprint_indicators > 0
        THEN EnvironmentContext(BLUEPRINT, 85, Keys(files), <<>>,
                 <<"F","o","u","n","d"," ","H","a","t","h","o","r"," ","i","n","d","i","c","a","t","o","r",
                   "s"," ","i","n"," ">> \o IntToStr(blueprint_indicators)
                 \o <<" ","f","i","l","e","(","s",")">>)
        ELSE IF dapp_indicators > 0
        THEN EnvironmentContext(DAPP, 85, <<>>, Keys(files),
                 <<"F","o","u","n","d"," ","N","e","x","t",".","j","s"," ","i","n","d","i","c","a","t","o",
                   "r","s"," ","i","n"," ">> \o IntToStr(dapp_indicators)
                 \o <<" ","f","i","l","e","(","s",")">>)
        ELSE DefaultContext

\* Heuristic 2, after the empty check: the verdict of the file contents
ContentAnalysis(files, message) ==
    LET blueprint_indicators ==
            Cardinality({i \in 1..Len(files) :
                            AnyIn(blueprint_indicators_list, files[i][2])})
        dapp_indicators ==
            Cardinality({i \in 1..Len(files) :
                            AnyIn(dapp_indicators_list, files[i][2])})
    IN  IF blueprint_indicators > 0 /\ dapp_indicators > 0
        THEN EnvironmentContext(MIXED, 85, Keys(files), Keys(files),
                 <<"F","o","u","n","d"," ","b","o","t","h"," ","H","a","t","h","o","r"," ","a","n","d"," ",
                   "N","e","x","t",".","j","s"," ","i","n","d","i","c","a","t","o","r","s"," ","i","n"," ",
                   "f","i","l","e"," ","c","o","n","t","e","n","t">>)
        ELSE IF blueprint_indicators > 0
        THEN EnvironmentContext(BLUEPRINT, 85, Keys(files), <<>>,
                 <<"F","o","u","n","d"," ","H","a","t","h","o","r"," ","i","n","d","i","c","a","t","o","r",
                   "s"," ","i","n"," ">> \o IntToStr(blueprint_indicators)
                 \o <<" ","f","i","l","e","(","s",")">>)
        ELSE IF dapp_indicators > 0
        THEN EnvironmentContext(DAPP, 85, <<>>, Keys(files),
                 <<"F","o","u","n","d"," ","N","e","x","t",".","j","s"," ","i","n","d","i","c","a","t","o",
                   "r","s"," ","i","n"," ">> \o IntToStr(dapp_indicators)
                 \o <<" ","f","i","l","e","(","s",")">>)
        ELSE IF message # <<>> /\ MessageIntent(message) # None
        THEN MessageIntent(message)[1]
        ELSE DefaultContext

\* detect_environment without its "if not files" step: the variant C7 is
\* checked against
detect_environment_without_empty_check(files, message) ==
    LET blueprint_files == SelectSeq(Keys(files), IsBlueprintPath)
        dapp_files == SelectSeq(Keys(files), IsDappPath)
        has_blueprints == Len(blueprint_files) > 0
        has_dapps == Len(dapp_files) > 0
    IN  IF has_blueprints /\ has_dapps
        THEN EnvironmentContext(MIXED, 95, blueprint_files, dapp_files,
                 <<"F","o","u","n","d"," ">> \o IntToStr(Len(blueprint_files)) \o <<" ","b","l","u","e","p","r","i","n","t","(","s",")"," ","a","n","d"," ">>
                 \o IntToStr(Len(dapp_files)) \o <<" ","d","A","p","p"," ","f","i","l","e","(","s",")">>)
        ELSE IF has_blueprints
        THEN EnvironmentContext(BLUEPRINT, 95, blueprint_files, <<>>,
                 <<"F","o","u","n","d"," ">> \o IntToStr(Len(blueprint_files))
                 \o <<" ","b","l","u","e","p","r","i","n","t"," ","f","i","l","e","(","s",")"," ","i","n"," ",
                      "/","b","l","u","e","p","r","i","n","t","s","/">>)
        ELSE IF has_dapps
        THEN EnvironmentContext(DAPP, 95, <<>>, dapp_files,
                 <<"F","o","u","n","d"," ">> \o IntToStr(Len(dapp_files)) \o <<" ","d","A","p","p"," ","f","i","l","e","(","s",")"," ","i","n"," ","/","d","a","p","p",
                                                                               "/">>)
        ELSE ContentAnalysis(files, message)

detect_environment(files, message) ==
    LET blueprint_files == SelectSeq(Keys(files), IsBlueprintPath)
        dapp_files == SelectSeq(Keys(files), IsDappPath)
        has_blueprints == Len(blueprint_files) > 0
        has_dapps == Len(dapp_files) > 0
    IN  IF has_blueprints /\ has_dapps
        THEN EnvironmentContext(MIXED, 95, blueprint_files, dapp_files,
                 <<"F","o","u","n","d"," ">> \o IntToStr(Len(blueprint_files)) \o <<" ","b","l","u","e","p","r","i","n","t","(","s",")"," ","a","n","d"," ">>
                 \o IntToStr(Len(dapp_files)) \o <<" ","d","A","p","p"," ","f","i","l","e","(","s",")">>)
        ELSE IF has_blueprints
        THEN EnvironmentContext(BLUEPRINT, 95, blueprint_files, <<>>,
                 <<"F","o","u","n","d"," ">> \o IntToStr(Len(blueprint_files))
                 \o <<" ","b","l","u","e","p","r","i","n","t"," ","f","i","l","e","(","s",")"," ","i","n"," ",
                      "/","b","l","u","e","p","r","i","n","t","s","/">>)
        ELSE IF has_dapps
        THEN EnvironmentContext(DAPP, 95, <<>>, dapp_files,
                 <<"F","o","u","n","d"," ">> \o IntToStr(Len(dapp_files)) \o <<" ","d","A","p","p"," ","f","i","l","e","(","s",")"," ","i","n"," ","/","d","a","p","p",
                                                                               "/">>)
        ELSE IF Len(files) = 0
        THEN EnvironmentContext(EMPTY, 95, <<>>, <<>>, <<"N","o"," ","f","i","l","e","s"," ","i","n"," ","p","r","o","j","e","c","t">>)
        ELSE ContentAnalysis(files, message)

\* should_enable_blueprint_tools whatever the kind: the variant C25 is checked
\* against
should_enable_blueprint_tools_always(context) == TRUE

should_enable_blueprint_tools(context) ==
    context.env_type \in {BLUEPRINT, MIXED, EMPTY}

\* should_enable_dapp_tools without EMPTY: the variant C8 is checked against
should_enable_dapp_tools_without_empty(context) ==
    context.env_type \in {DAPP, MIXED}

\* should_enable_dapp_tools whatever the kind: the variant C26 is checked
\* against
should_enable_dapp_tools_always(context) == TRUE

should_enable_dapp_tools(context) ==
    context.env_type \in {DAPP, MIXED, EMPTY}

-----------------------------------------------------------------------------
(* Order of strings and sorting *)

AsciiOrder == <<" ","!","\"","#","$","%","&","'","(",")","*","+",",","-",".","/","0","1","2","3","4","5",
                "6","7","8","9",":",";","<","=",">","?","@","A","B","C","D","E","F","G","H","I","J","K",
                "L","M","N","O","P","Q","R","S","T","U","V","W","X","Y","Z","[","\\","]","^","_","U+0060","a",
                "b","c","d","e","f","g","h","i","j","k","l","m","n","o","p","q","r","s","t","u","v","w",
                "x","y","z","{","|","}","~">>

\* ord(c): control characters sort first, code points outside ASCII last
Ord(c) ==
    IF \E i \in 1..Len(AsciiOrder) : AsciiOrder[i] = c
    THEN 31 + (CHOOSE i \in 1..Len(AsciiOrder) : AsciiOrder[i] = c)
    ELSE IF c \in {"\n", "\t", "\r"} THEN 10 ELSE 1000

\* a < b on str
RECURSIVE StrLess(_, _)
StrLess(a, b) ==
    IF Len(b) = 0 THEN FALSE
    ELSE IF Len(a) = 0 THEN TRUE
    ELSE IF Ord(a[1]) # Ord(b[1]) THEN Ord(a[1]) < Ord(b[1])
    ELSE StrLess(Tail(a), Tail(b))

\* sorted(items) for a list of str
RECURSIVE SortedStrs(_)
SortedStrs(items) ==
    IF Len(items) = 0 THEN <<>>
    ELSE LET m == CHOOSE i \in 1..Len(items) :
                      /\ \A j \in 1..Len(items) : ~StrLess(items[j], items[i])
                      /\ \A j \in 1..(i - 1) : StrLess(items[i], items[j])
         IN  <<items[m]>> \o
             SortedStrs(SubSeq(items, 1, m - 1) \o SubSeq(items, m + 1, Len(items)))

\* a set of str as a list in some order
RECURSIVE SetToSeq(_)
SetToSeq(S) ==
    IF S = {} THEN <<>>
    ELSE LET x == CHOOSE y \in S : TRUE IN <<x>> \o SetToSeq(S \ {x})

Whitespace == {" ", "\t", "\n", "\r", "\f"}

\* s.strip()
RECURSIVE Strip(_)
Strip(s) ==
    IF Len(s) = 0 THEN s
    ELSE IF s[1] \in Whitespace THEN Strip(Tail(s))
    ELSE IF s[Len(s)] \in Whitespace THEN Strip(SubSeq(s, 1, Len(s) - 1))
    ELSE s

\* repr of a list of str whose elements hold no quote and no backslash
ReprStrList(items) ==
    LET Quoted(x) == <<"'">> \o x \o <<"'">>
    IN  <<"[">> \o Join(<<","," ">>, [i \in 1..Len(items) |-> Quoted(items[i])]) \o <<"]">>

\* the last piece of a path: path.split("/")[-1]
Basename(path) == LET parts == Split(path, "/") IN parts[Len(parts)]

\* "Normalize path": a path that does not start with / gets one
NormalizePath(path) == IF ~StartsWith(path, <<"/">>) THEN <<"/">> \o path ELSE path

-----------------------------------------------------------------------------
(* How a call ends: it returns a value or raises an exception *)

Return(self, value) == [self |-> self, raised |-> FALSE, value |-> value]
Raise(self, exc, msg) == [self |-> self, raised |-> TRUE, value |-> [exc |-> exc, msg |-> msg]]

\* str(x) of a value that is not a str: the value under a tag
StrOf(x) == [str |-> x]

-----------------------------------------------------------------------------
(* api/ai_tools.py: FileTools *)

FileTools(project_files, project_id) == [files |-> project_files, project_id |-> project_id]

FileInfo(path, name, type, size) == [path |-> path, name |-> name, type |-> type, size |-> size]

\* sort(key=lambda f: (f.type != "directory", f.name)), a stable sort
FileInfoLess(f, g) ==
    \/ f.type = "directory" /\ g.type # "directory"
    \/ (f.type = "directory") = (g.type = "directory") /\ StrLess(f.name, g.name)

RECURSIVE SortFileInfos(_)
SortFileInfos(items) ==
    IF Len(items) = 0 THEN <<>>
    ELSE LET m == CHOOSE i \in 1..Len(items) :
                      /\ \A j \in 1..Len(items) : ~FileInfoLess(items[j], items[i])
                      /\ \A j \in 1..(i - 1) : FileInfoLess(items[i], items[j])
         IN  <<items[m]>> \o
             SortFileInfos(SubSeq(items, 1, m - 1) \o SubSeq(items, m + 1, Len(items)))

FileTools_list_files(self, path0) ==
    LET path1 == NormalizePath(path0)
        path == IF ~EndsWith(path1, <<"/">>) /\ path1 # <<"/">> THEN path1 \o <<"/">> ELSE path1
        InDir(e) == StartsWith(e[1], path) \/ (path = <<"/">> /\ StartsWith(e[1], <<"/">>))
        RelPath(e) == IF path # <<"/">> THEN SubSeq(e[1], Len(path) + 1, Len(e[1]))
                      ELSE SubSeq(e[1], 2, Len(e[1]))
        inside == SelectSeq(self.files, InDir)
        direct == SelectSeq(inside, LAMBDA e : ~Contains(RelPath(e), <<"/">>))
        subdirs == {Split(RelPath(inside[i]), "/")[1] :
                        i \in {k \in 1..Len(inside) : Contains(RelPath(inside[k]), <<"/">>)}}
        files_in_dir ==
            [i \in 1..Len(direct) |->
                FileInfo(direct[i][1], RelPath(direct[i]), "file", <<Len(direct[i][2])>>)]
        sorted_subdirs == SortedStrs(SetToSeq(subdirs))
        dirs == [i \in 1..Len(sorted_subdirs) |->
                    FileInfo(path \o sorted_subdirs[i], sorted_subdirs[i], "directory", None)]
    IN  Return(self, SortFileInfos(files_in_dir \o dirs))

FileTools_read_file(self, path0) ==
    LET path == NormalizePath(path0)
        filename == Lower(Basename(path))
        found == {i \in 1..Len(self.files) : Lower(Basename(self.files[i][1])) = filename}
        first == CHOOSE i \in found : \A j \in found : i <= j
        file_path == self.files[first][1]
        warning ==
            <<"U+26A0","U+FE0F"," ","N","O","T","E",":"," ","F","i","l","e"," ","f","o","u","n","d"," ","a","t",
              " ","'">> \o file_path
            \o <<"'"," ","(","y","o","u"," ","s","e","a","r","c","h","e","d"," ","f","o","r"," ","'">> \o path \o <<"'",")","\n">>
            \o <<"W","h","e","n"," ","m","o","d","i","f","y","i","n","g"," ","t","h","i","s"," ","f","i",
                 "l","e",","," ","u","s","e",":"," ","w","r","i","t","e","_","f","i","l","e","(","'">> \o file_path
            \o <<"'",","," ","c","o","n","t","e","n","t",")","\n">>
            \o <<"D","O"," ","N","O","T"," ","u","s","e",":"," ","w","r","i","t","e","_","f","i","l","e",
                 "(","'">> \o path \o <<"'",","," ","c","o","n","t","e","n","t",")","\n","\n">>
    IN  IF HasKey(self.files, path) THEN Return(self, Get(self.files, path))
        ELSE IF found # {} THEN Return(self, warning \o self.files[first][2])
        ELSE Raise(self, "FileNotFoundError",
                   <<"F","i","l","e"," ","n","o","t"," ","f","o","u","n","d",":"," ">> \o path \o <<"."," ","A","v","a","i","l","a","b","l","e"," ","f","i","l","e","s",":"," ">>
                   \o ReprStrList(Keys(self.files)))

FileTools_write_file(self, path0, content) ==
    LET path == NormalizePath(path0)
        action == IF HasKey(self.files, path) THEN <<"U","p","d","a","t","e","d">> ELSE <<"C","r","e","a","t","e","d">>
        error_msg ==
            <<"U+274C"," ","I","N","V","A","L","I","D"," ","P","A","T","H",":"," ","'">> \o path \o <<"'","\n","\n">>
            \o <<"A","l","l"," ","d","A","p","p"," ","f","i","l","e","s"," ","M","U","S","T"," ","s","t",
                 "a","r","t"," ","w","i","t","h"," ","'","/","d","a","p","p","/","'","\n","\n">>
            \o <<"E","x","a","m","p","l","e","s",":","\n">>
            \o <<" "," ","U+2705"," ","C","O","R","R","E","C","T",":"," ","/","d","a","p","p","/","c","o","m",
                 "p","o","n","e","n","t","s","/","I","n","c","r","e","m","e","n","t","C","o","u","n","t",
                 "e","r",".","t","s","x","\n">>
            \o <<" "," ","U+2705"," ","C","O","R","R","E","C","T",":"," ","/","d","a","p","p","/","a","p","p",
                 "/","p","a","g","e",".","t","s","x","\n">>
            \o <<" "," ","U+274C"," ","W","R","O","N","G",":"," ","/","I","n","c","r","e","m","e","n","t","C",
                 "o","u","n","t","e","r",".","t","s","x","\n">>
            \o <<" "," ","U+274C"," ","W","R","O","N","G",":"," ","/","c","o","m","p","o","n","e","n","t","s",
                 "/","I","n","c","r","e","m","e","n","t","C","o","u","n","t","e","r",".","t","s","x","\n",
                 "\n">>
            \o <<"P","l","e","a","s","e"," ","u","s","e"," ","t","h","e"," ","c","o","r","r","e","c","t",
                 " ","p","a","t","h"," ","s","t","a","r","t","i","n","g"," ","w","i","t","h"," ","/","d",
                 "a","p","p","/">>
    IN  IF ~StartsWith(path, <<"/","d","a","p","p","/">>) THEN Return(self, error_msg)
        ELSE Return([self EXCEPT !.files = Put(self.files, path, content)],
                    action \o <<" ">> \o path \o <<" ","(">> \o IntToStr(Len(content))
                    \o <<" ","c","h","a","r","s",")">>)

\* delete_file that reports the deletion and keeps the file: the variant C10
\* is checked against
FileTools_delete_file_keeping_the_file(self, path0) ==
    LET path == NormalizePath(path0)
    IN  IF ~HasKey(self.files, path)
        THEN Raise(self, "FileNotFoundError", <<"F","i","l","e"," ","n","o","t"," ","f","o","u","n","d",":"," ">> \o path)
        ELSE Return(self, <<"D","e","l","e","t","e","d"," ">> \o path)

FileTools_delete_file(self, path0) ==
    LET path == NormalizePath(path0)
    IN  IF ~HasKey(self.files, path)
        THEN Raise(self, "FileNotFoundError", <<"F","i","l","e"," ","n","o","t"," ","f","o","u","n","d",":"," ">> \o path)
        ELSE Return([self EXCEPT !.files = Del(self.files, path)], <<"D","e","l","e","t","e","d"," ">> \o path)


\* GrepMatch(file, line_number, line, match)
GrepMatch(file, line_number, line, match) ==
    [file |-> file, line_number |-> line_number, line |-> line, match |-> match]

\* the characters a regular expression gives a meaning of their own
RegexMeta == {".", "^", "$", "*", "+", "?", "{", "}", "[", "]", "\\", "|", "(", ")"}

\* re.compile(pattern) raises re.error.  Decided for the patterns of the model:
\* a text that holds no special character compiles, a lone bracket, star, plus,
\* question mark or backslash does not
re_compile_fails(pattern) ==
    \E i \in 1..Len(pattern) : pattern[i] \in {"(", ")", "[", "*", "+", "?", "\\"}

\* pattern_re.search(line) under re.IGNORECASE, for a pattern that holds no
\* special character: a case-insensitive search for the text
re_search_ignorecase(pattern, line) == Contains(Lower(line), Lower(pattern))

\* matches[:100]
MatchCap == 100

FileTools_grep(self, pattern, path0) ==
    LET path == NormalizePath(path0)
        files_to_search ==
            IF HasKey(self.files, path) THEN <<path>>
            ELSE SelectSeq(Keys(self.files),
                        LAMBDA file_path : StartsWith(file_path, path) \/ path = <<"/">>)
        LineMatches(line) ==
            IF ~re_compile_fails(pattern) THEN re_search_ignorecase(pattern, line)
            ELSE Contains(Lower(line), Lower(pattern))
        MatchesIn(file_path) ==
            LET lines == Split(Get(self.files, file_path), "\n")
                hits == SelectSeq([n \in 1..Len(lines) |-> n],
                                  LAMBDA n : LineMatches(lines[n]))
            IN  [k \in 1..Len(hits) |->
                    GrepMatch(file_path, hits[k], Strip(lines[hits[k]]), pattern)]
        Collect[k \in 0..Len(files_to_search)] ==
            IF k = 0 THEN <<>> ELSE Collect[k - 1] \o MatchesIn(files_to_search[k])
        matches == Collect[Len(files_to_search)]
    IN  Return(self, SubSeq(matches, 1, IF Len(matches) < MatchCap THEN Len(matches)
                                        ELSE MatchCap))

NoProjectId == <<"E","r","r","o","r",":"," ","N","o"," ","p","r","o","j","e","c","t","_","i","d"," ","a",
                 "v","a","i","l","a","b","l","e"," ","f","o","r"," ","s","a","n","d","b","o","x"," ","o",
                 "p","e","r","a","t","i","o","n","s">>

\* run_command without its except clause, which lets what the service raises
\* through: the variant C13 is checked against
FileTools_run_command_without_except(self, command, beam) ==
    LET result == beam.value
        output ==
            (IF result.stdout # <<>> THEN <<<<"S","T","D","O","U","T",":">>, result.stdout>> ELSE <<>>)
            \o (IF result.stderr # <<>> THEN <<<<"\n","S","T","D","E","R","R",":">>, result.stderr>> ELSE <<>>)
            \o (IF result.stdout = <<>> /\ result.stderr = <<>>
                THEN <<<<"C","o","m","m","a","n","d"," ","c","o","m","p","l","e","t","e","d"," ","w","i","t","h",
                         " ","n","o"," ","o","u","t","p","u","t">>>> ELSE <<>>)
    IN  IF self.project_id = <<>> THEN Return(self, NoProjectId)
        ELSE IF beam.raised
        THEN Raise(self, beam.value.exc, beam.value.msg)
        ELSE Return(self, Join(<<"\n">>, output))

\* beam is how the call of beam_service.run_command ended
FileTools_run_command(self, command, beam) ==
    LET result == beam.value
        output ==
            (IF result.stdout # <<>> THEN <<<<"S","T","D","O","U","T",":">>, result.stdout>> ELSE <<>>)
            \o (IF result.stderr # <<>> THEN <<<<"\n","S","T","D","E","R","R",":">>, result.stderr>> ELSE <<>>)
            \o (IF result.stdout = <<>> /\ result.stderr = <<>>
                THEN <<<<"C","o","m","m","a","n","d"," ","c","o","m","p","l","e","t","e","d"," ","w","i","t","h",
                         " ","n","o"," ","o","u","t","p","u","t">>>> ELSE <<>>)
    IN  IF self.project_id = <<>> THEN Return(self, NoProjectId)
        ELSE IF beam.raised
        THEN Return(self, <<"E","r","r","o","r"," ","r","u","n","n","i","n","g"," ","c","o","m","m","a","n","d",":",
                            " ">> \o beam.value.msg)
        ELSE Return(self, Join(<<"\n">>, output))

\* beam is how the call of beam_service.get_recent_logs ended
FileTools_get_sandbox_logs(self, lines, beam) ==
    IF self.project_id = <<>> THEN Return(self, NoProjectId)
    ELSE IF beam.raised
    THEN Return(self, <<"E","r","r","o","r"," ","g","e","t","t","i","n","g"," ","l","o","g","s",":"," ">> \o beam.value.msg)
    ELSE Return(self, <<"R","e","c","e","n","t"," ","l","o","g","s"," ","(">> \o IntToStr(lines) \o <<" ","l","i","n","e","s",")",":","\n","\n">> \o beam.value)

\* beam is how the call of beam_service.restart_dev_server ended
FileTools_restart_dev_server(self, beam) ==
    IF self.project_id = <<>> THEN Return(self, NoProjectId)
    ELSE IF beam.raised
    THEN Return(self, <<"E","r","r","o","r"," ","r","e","s","t","a","r","t","i","n","g"," ","s","e","r","v","e",
                        "r",":"," ">> \o beam.value.msg)
    ELSE Return(self, <<"D","e","v"," ","s","e","r","v","e","r"," ","r","e","s","t","a","r","t","e","d"," ","s",
                        "u","c","c","e","s","s","f","u","l","l","y","!","\n","U","R","L",":"," ">>
                      \o (IF HasKey(beam.value, "url") THEN Get(beam.value, "url")
                          ELSE <<"N","/","A">>))

\* sorted(generated_files.keys())[:20]
ListedFiles == 20

\* beam is how the call of beam_service.bootstrap_nextjs ended
FileTools_bootstrap_nextjs_project(self, use_typescript, use_tailwind, beam) ==
    LET generated_files == beam.value
        names == SortedStrs(Keys(generated_files))
        shown == SubSeq(names, 1, IF Len(names) < ListedFiles THEN Len(names)
                                  ELSE ListedFiles)
        file_list ==
            Join(<<"\n">>, [i \in 1..Len(shown) |-> <<" "," ","-"," ">> \o shown[i]])
            \o (IF Len(generated_files) > ListedFiles
                THEN <<"\n"," "," ",".",".","."," ","a","n","d"," ">> \o IntToStr(Len(generated_files) - ListedFiles)
                     \o <<" ","m","o","r","e"," ","f","i","l","e","s">>
                ELSE <<>>)
    IN  IF self.project_id = <<>> THEN Return(self, NoProjectId)
        ELSE IF beam.raised
        THEN Return(self, <<"E","r","r","o","r"," ","b","o","o","t","s","t","r","a","p","p","i","n","g"," ","N","e",
                            "x","t",".","j","s"," ","p","r","o","j","e","c","t",":"," ">> \o beam.value.msg)
        ELSE Return([self EXCEPT !.files = Update(self.files, generated_files)],
                 <<"U+2705"," ","S","u","c","c","e","s","s","f","u","l","l","y"," ","b","o","o","t","s","t","r",
                   "a","p","p","e","d"," ","N","e","x","t",".","j","s"," ","p","r","o","j","e","c","t","!",
                   "\n","\n">>
                 \o <<"G","e","n","e","r","a","t","e","d"," ">> \o IntToStr(Len(generated_files)) \o <<" ","f","i","l","e","s",":","\n">>
                 \o file_list \o <<"\n","\n">>
                 \o <<"T","h","e"," ","p","r","o","j","e","c","t"," ","i","n","c","l","u","d","e","s",":","\n">>
                 \o <<" "," ","-"," ","N","e","x","t",".","j","s"," ","1","4"," ","w","i","t","h"," ","A","p",
                      "p"," ","R","o","u","t","e","r","\n">>
                 \o <<" "," ","-"," ">> \o (IF use_typescript THEN <<"T","y","p","e","S","c","r","i","p","t">> ELSE <<"J","a","v","a","S","c","r","i","p","t">>)
                 \o <<"\n">>
                 \o <<" "," ","-"," ">> \o (IF use_tailwind THEN <<"T","a","i","l","w","i","n","d"," ","C","S","S">> ELSE <<"N","o"," ","s","t","y","l","i","n","g">>)
                 \o <<"\n">>
                 \o <<" "," ","-"," ","p","a","c","k","a","g","e",".","j","s","o","n"," ","w","i","t","h"," ",
                      "a","l","l"," ","d","e","p","e","n","d","e","n","c","i","e","s","\n">>
                 \o <<" "," ","-"," ","C","o","m","p","l","e","t","e"," ","c","o","n","f","i","g","u","r","a",
                      "t","i","o","n"," ","f","i","l","e","s","\n","\n">>
                 \o <<"Y","o","u"," ","c","a","n"," ","n","o","w"," ","m","o","d","i","f","y"," ","t","h","e",
                      "s","e"," ","f","i","l","e","s"," ","o","r"," ","a","d","d"," ","n","e","w"," ","f","e",
                      "a","t","u","r","e","s"," ","o","n"," ","t","o","p","!">>)

\* beam is how the call of beam_service.download_files ended
FileTools_download_sandbox_files(self, beam) ==
    LET downloaded_files == beam.value
    IN  IF self.project_id = <<>> THEN Return(self, NoProjectId)
        ELSE IF beam.raised
        THEN Return(self, <<"E","r","r","o","r"," ","d","o","w","n","l","o","a","d","i","n","g"," ","f","i","l","e",
                            "s"," ","f","r","o","m"," ","s","a","n","d","b","o","x",":"," ">> \o beam.value.msg)
        ELSE Return([self EXCEPT !.files = Update(self.files, downloaded_files)],
                 <<"U+2705"," ","D","o","w","n","l","o","a","d","e","d"," ">> \o IntToStr(Len(downloaded_files))
                 \o <<" ","f","i","l","e","s"," ","f","r","o","m"," ","s","a","n","d","b","o","x","\n","\n">>
                 \o <<"F","i","l","e","s"," ","a","r","e"," ","n","o","w"," ","s","y","n","c","e","d"," ","t",
                      "o"," ","t","h","e"," ","I","D","E","!">>)

-----------------------------------------------------------------------------
(* api/unified_tools.py: UnifiedTools *)

\* The markers of the result strings, as the source file spells them
CrossMark == <<"U+201A","U+00F9","U+00E5">>
CheckMark == <<"U+201A","U+00FA","U+00D6">>
WarningMark == <<"U+201A","U+00F6","U+2020","U+00D4","U+220F","U+00E8">>
MagnifierMark == <<"U+F8FF","U+00FC","U+00EE","U+00E7">>

\* UnifiedTools.__init__: file_tools gets a copy of its own of project_files
UnifiedTools(project_files, project_id, enable_blueprint_tools, enable_dapp_tools) ==
    [project_files |-> project_files,
     project_id |-> project_id,
     enable_blueprint_tools |-> enable_blueprint_tools,
     enable_dapp_tools |-> enable_dapp_tools,
     tool_calls |-> <<>>,
     file_tools |-> IF enable_dapp_tools
                    THEN <<FileTools(project_files, project_id)>>
                    ELSE None]

ToolCallRecord(tool_name, args, result) ==
    [tool |-> tool_name, args |-> args, result |-> result]

\* _track_tool_call that keeps the last call only: the variant C9 is checked
\* against
_track_tool_call_keeping_the_last(self, tool_name, args, result) ==
    [self EXCEPT !.tool_calls = <<ToolCallRecord(tool_name, args, result)>>]

_track_tool_call(self, tool_name, args, result) ==
    [self EXCEPT !.tool_calls = Append(@, ToolCallRecord(tool_name, args, result))]

\* a call of a FileTools method through self.file_tools: the router keeps the
\* reference, the FileTools object takes the new state
Delegate(self, r) == [r EXCEPT !.self = [self EXCEPT !.file_tools = <<r.self>>]]

UnifiedTools_list_files(self, path) ==
    IF self.file_tools # None
    THEN Delegate(self, FileTools_list_files(self.file_tools[1], path))
    ELSE LET inside == SelectSeq(Keys(self.project_files),
                              LAMBDA file_path : StartsWith(file_path, path))
         IN  Return(self, [i \in 1..Len(inside) |->
                              [path |-> inside[i], name |-> Basename(inside[i]),
                               type |-> "file"]])

UnifiedTools_read_file(self, path0) ==
    LET path == NormalizePath(path0)
        filename == Basename(path)
        found == {i \in 1..Len(self.project_files) :
                     EndsWith(self.project_files[i][1], filename)}
        first == CHOOSE i \in found : \A j \in found : i <= j
    IN  IF HasKey(self.project_files, path)
        THEN Return(self, Get(self.project_files, path))
        ELSE IF found # {}
        THEN Return(self, WarningMark \o <<" ","F","o","u","n","d"," ","a","t"," ">> \o self.project_files[first][1]
                          \o <<":","\n","\n">> \o self.project_files[first][2])
        ELSE Return(self, CrossMark \o <<" ","F","i","l","e"," ","n","o","t"," ","f","o","u","n","d",":"," ">> \o path)

\* write_file that stores a path outside the four directories: the variant
\* C3 is checked against
UnifiedTools_write_file_storing_any_path(self, path0, content) ==
    LET path == NormalizePath(path0)
        action == IF HasKey(self.project_files, path) THEN <<"U","p","d","a","t","e","d">> ELSE <<"C","r","e","a","t","e","d">>
        written == [self EXCEPT !.project_files = Put(@, path, content)]
    IN  IF StartsWith(path, <<"/","d","a","p","p","/">>)
        THEN IF ~self.enable_dapp_tools
             THEN Return(self, CrossMark \o <<" ","d","A","p","p"," ","t","o","o","l","s"," ","a","r","e"," ","n","o","t"," ","e","n",
                                              "a","b","l","e","d"," ","f","o","r"," ","t","h","i","s"," ","p","r","o","j","e","c","t">>)
             ELSE IF self.file_tools # None
             THEN Delegate(self, FileTools_write_file(self.file_tools[1], path, content))
             ELSE Return(self, None)
        ELSE IF \/ StartsWith(path, <<"/","b","l","u","e","p","r","i","n","t","s","/">>)
                \/ StartsWith(path, <<"/","c","o","n","t","r","a","c","t","s","/">>)
                \/ StartsWith(path, <<"/","t","e","s","t","s","/">>)
        THEN IF ~self.enable_blueprint_tools
             THEN Return(self, CrossMark
                               \o <<" ","B","l","u","e","p","r","i","n","t"," ","t","o","o","l","s"," ","a","r","e"," ","n",
                                    "o","t"," ","e","n","a","b","l","e","d"," ","f","o","r"," ","t","h","i","s"," ","p","r",
                                    "o","j","e","c","t">>)
             ELSE Return(IF self.file_tools # None
                         THEN [written EXCEPT !.file_tools[1].files = Put(@, path, content)]
                         ELSE written,
                         CheckMark \o <<" ">> \o action \o <<" ">> \o path)
        ELSE Return(written, CrossMark \o <<" ","I","n","v","a","l","i","d"," ","p","a","t","h",":"," ">> \o path \o <<"\n">>
                   \o <<"F","i","l","e","s"," ","m","u","s","t"," ","b","e"," ","i","n"," ","/","b","l","u","e",
                        "p","r","i","n","t","s","/",","," ","/","c","o","n","t","r","a","c","t","s","/",","," ",
                        "/","t","e","s","t","s","/",","," ","o","r"," ","/","d","a","p","p","/"," ","d","i","r",
                        "e","c","t","o","r","i","e","s">>)

\* write_file that does not ask whether the blueprint tools are enabled: the
\* variant C4 is checked against
UnifiedTools_write_file_without_blueprint_switch(self, path0, content) ==
    LET path == NormalizePath(path0)
        action == IF HasKey(self.project_files, path) THEN <<"U","p","d","a","t","e","d">> ELSE <<"C","r","e","a","t","e","d">>
        written == [self EXCEPT !.project_files = Put(@, path, content)]
    IN  IF StartsWith(path, <<"/","d","a","p","p","/">>)
        THEN IF ~self.enable_dapp_tools
             THEN Return(self, CrossMark \o <<" ","d","A","p","p"," ","t","o","o","l","s"," ","a","r","e"," ","n","o","t"," ","e","n",
                                              "a","b","l","e","d"," ","f","o","r"," ","t","h","i","s"," ","p","r","o","j","e","c","t">>)
             ELSE IF self.file_tools # None
             THEN Delegate(self, FileTools_write_file(self.file_tools[1], path, content))
             ELSE Return(self, None)
        ELSE IF \/ StartsWith(path, <<"/","b","l","u","e","p","r","i","n","t","s","/">>)
                \/ StartsWith(path, <<"/","c","o","n","t","r","a","c","t","s","/">>)
                \/ StartsWith(path, <<"/","t","e","s","t","s","/">>)
        THEN Return(IF self.file_tools # None
                    THEN [written EXCEPT !.file_tools[1].files = Put(@, path, content)]
                    ELSE written,
                    CheckMark \o <<" ">> \o action \o <<" ">> \o path)
        ELSE Return(self, CrossMark \o <<" ","I","n","v","a","l","i","d"," ","p","a","t","h",":"," ">> \o path \o <<"\n">>
                   \o <<"F","i","l","e","s"," ","m","u","s","t"," ","b","e"," ","i","n"," ","/","b","l","u","e",
                        "p","r","i","n","t","s","/",","," ","/","c","o","n","t","r","a","c","t","s","/",","," ",
                        "/","t","e","s","t","s","/",","," ","o","r"," ","/","d","a","p","p","/"," ","d","i","r",
                        "e","c","t","o","r","i","e","s">>)

UnifiedTools_write_file(self, path0, content) ==
    LET path == NormalizePath(path0)
        action == IF HasKey(self.project_files, path) THEN <<"U","p","d","a","t","e","d">> ELSE <<"C","r","e","a","t","e","d">>
        written == [self EXCEPT !.project_files = Put(@, path, content)]
    IN  IF StartsWith(path, <<"/","d","a","p","p","/">>)
        THEN IF ~self.enable_dapp_tools
             THEN Return(self, CrossMark \o <<" ","d","A","p","p"," ","t","o","o","l","s"," ","a","r","e"," ","n","o","t"," ","e","n",
                                              "a","b","l","e","d"," ","f","o","r"," ","t","h","i","s"," ","p","r","o","j","e","c","t">>)
             ELSE IF self.file_tools # None
             THEN Delegate(self, FileTools_write_file(self.file_tools[1], path, content))
             ELSE Return(self, None)
        ELSE IF \/ StartsWith(path, <<"/","b","l","u","e","p","r","i","n","t","s","/">>)
                \/ StartsWith(path, <<"/","c","o","n","t","r","a","c","t","s","/">>)
                \/ StartsWith(path, <<"/","t","e","s","t","s","/">>)
        THEN IF ~self.enable_blueprint_tools
             THEN Return(self, CrossMark
                               \o <<" ","B","l","u","e","p","r","i","n","t"," ","t","o","o","l","s"," ","a","r","e"," ","n",
                                    "o","t"," ","e","n","a","b","l","e","d"," ","f","o","r"," ","t","h","i","s"," ","p","r",
                                    "o","j","e","c","t">>)
             ELSE Return(IF self.file_tools # None
                         THEN [written EXCEPT !.file_tools[1].files = Put(@, path, content)]
                         ELSE written,
                         CheckMark \o <<" ">> \o action \o <<" ">> \o path)
        ELSE Return(self, CrossMark \o <<" ","I","n","v","a","l","i","d"," ","p","a","t","h",":"," ">> \o path \o <<"\n">>
                   \o <<"F","i","l","e","s"," ","m","u","s","t"," ","b","e"," ","i","n"," ","/","b","l","u","e",
                        "p","r","i","n","t","s","/",","," ","/","c","o","n","t","r","a","c","t","s","/",","," ",
                        "/","t","e","s","t","s","/",","," ","o","r"," ","/","d","a","p","p","/"," ","d","i","r",
                        "e","c","t","o","r","i","e","s">>)

UnifiedTools_get_project_structure(self) ==
    LET blueprints == SelectSeq(Keys(self.project_files),
                             LAMBDA p : \/ StartsWith(p, <<"/","b","l","u","e","p","r","i","n","t","s","/">>)
                                        \/ StartsWith(p, <<"/","c","o","n","t","r","a","c","t","s","/">>))
        dapps == SelectSeq(Keys(self.project_files), LAMBDA p : StartsWith(p, <<"/","d","a","p","p","/">>))
        Lines(paths) == LET sorted == SortedStrs(paths)
                        IN  Join(<<"\n">>, [i \in 1..Len(sorted) |-> <<" "," ">> \o sorted[i]])
    IN  Return(self,
            <<"P","r","o","j","e","c","t"," ","S","t","r","u","c","t","u","r","e",":","\n","\n">>
            \o (IF Len(blueprints) > 0
                THEN <<"U+F8FF","U+00FC","U+00EC","U+00FA"," ","B","l","u","e","p","r","i","n","t","s",":","\n">> \o Lines(blueprints) \o <<"\n","\n">>
                ELSE <<>>)
            \o (IF Len(dapps) > 0
                THEN <<"U+F8FF","U+00FC","U+00E5","U+00EA"," ","d","A","p","p",":","\n">> \o Lines(dapps) \o <<"\n","\n">>
                ELSE <<>>)
            \o (IF Len(blueprints) = 0 /\ Len(dapps) = 0
                THEN <<" "," ","(","e","m","p","t","y"," ","p","r","o","j","e","c","t",")","\n">>
                ELSE <<>>))

UnifiedTools_grep(self, pattern, path) ==
    IF self.file_tools # None
    THEN Delegate(self, FileTools_grep(self.file_tools[1], pattern, path))
    ELSE Return(self, <<>>)

NotEnabled == CrossMark \o <<" ","d","A","p","p"," ","t","o","o","l","s"," ","a","r","e"," ","n","o","t"," ","e","n",
                             "a","b","l","e","d"," ","(","n","o"," ","B","E","A","M"," ","s","a","n","d","b","o","x",
                             " ","a","v","a","i","l","a","b","l","e",")">>

UnifiedTools_run_command(self, command, beam) ==
    IF ~self.enable_dapp_tools \/ self.file_tools = None THEN Return(self, NotEnabled)
    ELSE Delegate(self, FileTools_run_command(self.file_tools[1], command, beam))

UnifiedTools_get_sandbox_logs(self, lines, beam) ==
    IF ~self.enable_dapp_tools \/ self.file_tools = None THEN Return(self, NotEnabled)
    ELSE Delegate(self, FileTools_get_sandbox_logs(self.file_tools[1], lines, beam))

UnifiedTools_restart_dev_server(self, beam) ==
    IF ~self.enable_dapp_tools \/ self.file_tools = None THEN Return(self, NotEnabled)
    ELSE Delegate(self, FileTools_restart_dev_server(self.file_tools[1], beam))

UnifiedTools_bootstrap_nextjs_project(self, use_typescript, use_tailwind, beam) ==
    IF ~self.enable_dapp_tools \/ self.file_tools = None THEN Return(self, NotEnabled)
    ELSE Delegate(self, FileTools_bootstrap_nextjs_project(self.file_tools[1],
                                                           use_typescript, use_tailwind, beam))

UnifiedTools_download_sandbox_files(self, beam) ==
    IF ~self.enable_dapp_tools \/ self.file_tools = None THEN Return(self, NotEnabled)
    ELSE Delegate(self, FileTools_download_sandbox_files(self.file_tools[1], beam))

(* Blueprint tools *)

\* The sources of the model that Python does not compile, each with the line
\* and the message of its SyntaxError
PythonSyntaxErrors ==
    { <<<<"@","v","i","e","w">>, 1, <<"i","n","v","a","l","i","d"," ","s","y","n","t","a","x">>>>,
      <<<<"u","s","e"," ","c","l","i","e","n","t">>, 1, <<"i","n","v","a","l","i","d"," ","s","y","n","t","a","x">>>>,
      <<<<"x"," ","="," ","(">>, 1, <<"'","(","'"," ","w","a","s"," ","n","e","v","e","r"," ","c","l","o","s","e","d">>>>,
      <<<<"s","e","l","f",".","x"," ","="," ","{","}","\n","x"," ","="," ","(">>, 2, <<"'","(","'"," ","w","a","s"," ","n","e","v","e","r"," ","c","l","o","s","e","d">>>>,
      <<<<" "," ","s","e","l","f",".","x"," ","="," ","{","}">>, 1, <<"u","n","e","x","p","e","c","t","e","d"," ","i","n","d","e","n","t">>>> }

\* compile(code, file_path, 'exec'): the SyntaxError it raises, None when the
\* source compiles
python_syntax_error(code) ==
    IF \E e \in PythonSyntaxErrors : e[1] = code
    THEN LET e == CHOOSE e \in PythonSyntaxErrors : e[1] = code
         IN  <<[lineno |-> e[2], msg |-> e[3]]>>
    ELSE None

\* \w of a regular expression, on ASCII
WordChars == Range(UpperLetters) \cup Range(LowerLetters) \cup Range(DecimalDigits) \cup {"_"}

\* what is left of s after its leading white space (\s*)
RECURSIVE SkipSpace(_)
SkipSpace(s) == IF Len(s) > 0 /\ s[1] \in Whitespace THEN SkipSpace(Tail(s)) ELSE s

\* what is left of s after its leading word characters (\w*)
RECURSIVE SkipWord(_)
SkipWord(s) == IF Len(s) > 0 /\ s[1] \in WordChars THEN SkipWord(Tail(s)) ELSE s

\* the pattern without its leading \s*, which finds no indented assignment: the
\* variant C12 is checked against
ContainerPatternSearch_without_indentation(literal, line) ==
    LET b == SubSeq(line, Len(<<"s","e","l","f",".">>) + 1, Len(line))
        c == SkipWord(b)
        d == SkipSpace(c)
        e == SkipSpace(Tail(d))
    IN  /\ StartsWith(line, <<"s","e","l","f",".">>)
        /\ Len(c) < Len(b)
        /\ Len(d) > 0 /\ d[1] = "="
        /\ StartsWith(e, literal)

\* re.compile(r'^\s*self\.\w+\s*=\s*' + literal, re.MULTILINE).search(line),
\* for a line that holds no line break
ContainerPatternSearch(literal, line) ==
    LET a == SkipSpace(line)
        b == SubSeq(a, Len(<<"s","e","l","f",".">>) + 1, Len(a))
        c == SkipWord(b)
        d == SkipSpace(c)
        e == SkipSpace(Tail(d))
    IN  /\ StartsWith(a, <<"s","e","l","f",".">>)
        /\ Len(c) < Len(b)
        /\ Len(d) > 0 /\ d[1] = "="
        /\ StartsWith(e, literal)

\* the closing texts of CONTAINER_PATTERNS: dict, list, set
CONTAINER_PATTERNS == << <<"{","}">>, <<"[","]">>, <<"s","e","t","(",")">> >>

\* Check 7: for each pattern the first line, not a comment, that it matches
ContainerIssues(code) ==
    LET lines == Split(code, "\n")
        Hits(k) == {n \in 1..Len(lines) :
                       /\ ~StartsWith(Strip(lines[n]), <<"#">>)
                       /\ ContainerPatternSearch(CONTAINER_PATTERNS[k], lines[n])}
        Issue(k) ==
            LET n == CHOOSE n \in Hits(k) : \A m \in Hits(k) : n <= m
            IN  CrossMark \o <<" ","C","R","I","T","I","C","A","L",":"," ","C","o","n","t","a","i","n","e","r"," ","f",
                               "i","e","l","d"," ","a","s","s","i","g","n","m","e","n","t"," ","d","e","t","e","c","t",
                               "e","d",":"," ">>
                \o Strip(lines[n]) \o <<"\n">>
                \o <<" "," "," ","C","o","n","t","a","i","n","e","r"," ","f","i","e","l","d","s"," ","(","d",
                     "i","c","t",","," ","l","i","s","t",","," ","s","e","t",")"," ","a","r","e"," ","a","u",
                     "t","o","-","i","n","i","t","i","a","l","i","z","e","d",".","\n">>
                \o <<" "," "," ","N","e","v","e","r"," ","w","r","i","t","e",":"," ","s","e","l","f",".","b",
                     "a","l","a","n","c","e","s"," ","="," ","{","}","\n">>
                \o <<" "," "," ","J","u","s","t"," ","u","s","e",":"," ","s","e","l","f",".","b","a","l","a",
                     "n","c","e","s","[","k","e","y","]"," ","="," ","v","a","l","u","e">>
        Collect[k \in 0..Len(CONTAINER_PATTERNS)] ==
            IF k = 0 THEN <<>>
            ELSE Collect[k - 1] \o (IF Hits(k) # {} THEN <<Issue(k)>> ELSE <<>>)
    IN  Collect[Len(CONTAINER_PATTERNS)]

UnifiedTools_validate_blueprint(self, file_path) ==
    LET available == SelectSeq(Keys(self.project_files),
                            LAMBDA p : \/ StartsWith(p, <<"/","b","l","u","e","p","r","i","n","t","s","/">>)
                                       \/ StartsWith(p, <<"/","c","o","n","t","r","a","c","t","s","/">>))
        code == Get(self.project_files, file_path)
        error == python_syntax_error(code)
        issues ==
            (IF ~Contains(code, <<"f","r","o","m"," ","h","a","t","h","o","r">>) /\ ~Contains(code, <<"i","m","p","o","r","t"," ","h","a","t","h","o","r">>)
             THEN <<WarningMark \o <<" ","M","i","s","s","i","n","g"," ","H","a","t","h","o","r"," ","i","m","p","o","r","t",
                                     "s"," ","(","f","r","o","m"," ","h","a","t","h","o","r",".","n","a","n","o","c","o","n",
                                     "t","r","a","c","t","s",".",".",".",")">>>>
             ELSE <<>>)
            \o (IF ~Contains(code, <<"c","l","a","s","s"," ">>)
                THEN <<CrossMark \o <<" ","N","o"," ","c","l","a","s","s"," ","d","e","f","i","n","i","t","i","o","n"," ","f",
                                      "o","u","n","d"," ","(","b","l","u","e","p","r","i","n","t","s"," ","m","u","s","t"," ",
                                      "b","e"," ","c","l","a","s","s","e","s",")">>>>
                ELSE IF ~Contains(code, <<"B","l","u","e","p","r","i","n","t">>)
                THEN <<WarningMark \o <<" ","C","l","a","s","s"," ","s","h","o","u","l","d"," ","i","n","h","e","r","i","t"," ",
                                        "f","r","o","m"," ","B","l","u","e","p","r","i","n","t">>>>
                ELSE <<>>)
            \o (IF ~Contains(code, <<"_","_","b","l","u","e","p","r","i","n","t","_","_">>)
                THEN <<CrossMark \o <<" ","M","i","s","s","i","n","g"," ","_","_","b","l","u","e","p","r","i","n","t","_","_",
                                      " ","e","x","p","o","r","t"," ","(","r","e","q","u","i","r","e","d","!",")">>>>
                ELSE <<>>)
            \o (IF ~Contains(code, <<"@","p","u","b","l","i","c">>) /\ ~Contains(code, <<"@","v","i","e","w">>)
                THEN <<WarningMark \o <<" ","N","o"," ","@","p","u","b","l","i","c"," ","o","r"," ","@","v","i","e","w"," ","m",
                                        "e","t","h","o","d","s"," ","f","o","u","n","d">>>>
                ELSE <<>>)
            \o (IF ~Contains(code, <<"d","e","f"," ","i","n","i","t","i","a","l","i","z","e">>)
                THEN <<WarningMark \o <<" ","N","o"," ","i","n","i","t","i","a","l","i","z","e","(",")"," ","m","e","t","h","o",
                                        "d"," ","f","o","u","n","d">>>>
                ELSE <<>>)
            \o (IF Contains(code, <<"d","e","f"," ","_","_","i","n","i","t","_","_">>)
                THEN <<CrossMark \o <<" ","D","o","n","'","t"," ","u","s","e"," ","_","_","i","n","i","t","_","_","!"," ","U",
                                      "s","e"," ","i","n","i","t","i","a","l","i","z","e","(",")"," ","i","n","s","t","e","a",
                                      "d">>>>
                ELSE <<>>)
            \o ContainerIssues(code)
            \o (IF Contains(code, <<"@","p","u","b","l","i","c">>) /\ Contains(code, <<"c","t","x",".","a","d","d","r","e","s","s">>)
                THEN <<CrossMark
                       \o <<" ","D","o","n","'","t"," ","u","s","e"," ","c","t","x",".","a","d","d","r","e","s","s",
                            "!"," ","U","s","e"," ","c","t","x",".","v","e","r","t","e","x",".","h","a","s","h"," ",
                            "i","n","s","t","e","a","d"," ","f","o","r"," ","c","a","l","l","e","r"," ","i","d","e",
                            "n","t","i","t","y">>>>
                ELSE <<>>)
    IN  IF ~(StartsWith(file_path, <<"/","b","l","u","e","p","r","i","n","t","s","/">>) \/ StartsWith(file_path, <<"/","c","o","n","t","r","a","c","t","s","/">>))
        THEN Return(self,
                 CrossMark \o <<" ","B","l","u","e","p","r","i","n","t"," ","f","i","l","e","s"," ","m","u","s","t"," ",
                                "b","e"," ","i","n"," ","/","b","l","u","e","p","r","i","n","t","s","/"," ","o","r"," ",
                                "/","c","o","n","t","r","a","c","t","s","/"," ","d","i","r","e","c","t","o","r","y",".",
                                "\n">>
                 \o <<"G","o","t",":"," ">> \o file_path \o <<"\n">>
                 \o <<"E","x","p","e","c","t","e","d",":"," ","/","b","l","u","e","p","r","i","n","t","s","/",
                      "*",".","p","y"," ","o","r"," ","/","c","o","n","t","r","a","c","t","s","/","*",".","p",
                      "y">>)
        ELSE IF ~HasKey(self.project_files, file_path)
        THEN Return(self,
                 CrossMark \o <<" ","F","i","l","e"," ","n","o","t"," ","f","o","u","n","d",":"," ">> \o file_path \o <<"\n">>
                 \o <<"A","v","a","i","l","a","b","l","e"," ","b","l","u","e","p","r","i","n","t","s",":"," ">>
                 \o (IF Len(available) > 0 THEN ReprStrList(available) ELSE <<"N","o","n","e">>))
        ELSE IF error # None
        THEN Return(self, CrossMark \o <<" ","S","y","n","t","a","x"," ","E","r","r","o","r"," ","o","n"," ","l","i","n","e"," ">> \o IntToStr(error[1].lineno)
                          \o <<":"," ">> \o error[1].msg)
        ELSE IF Len(issues) = 0
        THEN Return(self, CheckMark \o <<" ">> \o file_path
                          \o <<" ","p","a","s","s","e","d"," ","v","a","l","i","d","a","t","i","o","n","!"," ","R","e",
                               "a","d","y"," ","f","o","r"," ","c","o","m","p","i","l","a","t","i","o","n",".">>)
        ELSE Return(self,
                 MagnifierMark \o <<" ","V","a","l","i","d","a","t","i","o","n"," ","r","e","s","u","l","t","s"," ","f","o",
                                    "r"," ">> \o file_path \o <<":","\n","\n">>
                 \o Join(<<"\n">>, [i \in 1..Len(issues) |-> <<" "," ">> \o issues[i]])
                 \o <<"\n","\n","F","i","x"," ","t","h","e","s","e"," ","i","s","s","u","e","s"," ","b","e","f",
                      "o","r","e"," ","c","o","m","p","i","l","i","n","g",".">>)

UnifiedTools_compile_blueprint(self, file_path) ==
    LET validation_result == UnifiedTools_validate_blueprint(self, file_path).value
    IN  IF Contains(validation_result, CrossMark)
        THEN Return(self,
                 <<"C","a","n","n","o","t"," ","c","o","m","p","i","l","e"," ","d","u","e"," ","t","o"," ",
                   "v","a","l","i","d","a","t","i","o","n"," ","e","r","r","o","r","s",":","\n","\n">> \o validation_result
                 \o <<"\n","\n">>
                 \o <<"F","i","x"," ","t","h","e","s","e"," ","i","s","s","u","e","s"," ","f","i","r","s","t",
                      ","," ","t","h","e","n"," ","t","r","y"," ","c","o","m","p","i","l","i","n","g"," ","a",
                      "g","a","i","n",".">>)
        ELSE Return(self,
                 CheckMark \o <<" ","B","l","u","e","p","r","i","n","t"," ","r","e","a","d","y"," ","f","o","r"," ","c",
                                "o","m","p","i","l","a","t","i","o","n",":"," ">> \o file_path \o <<"\n","\n">>
                 \o <<"V","a","l","i","d","a","t","i","o","n"," ","p","a","s","s","e","d","!"," ","T","o"," ",
                      "c","o","m","p","i","l","e",":","\n">>
                 \o <<"1","."," ","S","a","v","e"," ","y","o","u","r"," ","c","h","a","n","g","e","s","\n">>
                 \o <<"2","."," ","C","l","i","c","k"," ","t","h","e"," ","'","C","o","m","p","i","l","e","'",
                      " ","b","u","t","t","o","n"," ","i","n"," ","t","h","e"," ","I","D","E","\n">>
                 \o <<"3","."," ","V","i","e","w"," ","c","o","m","p","i","l","a","t","i","o","n"," ","r","e",
                      "s","u","l","t","s"," ","i","n"," ","t","h","e"," ","c","o","n","s","o","l","e","\n","\n">>
                 \o <<"N","o","t","e",":"," ","C","o","m","p","i","l","a","t","i","o","n"," ","h","a","p","p",
                      "e","n","s"," ","i","n"," ","y","o","u","r"," ","b","r","o","w","s","e","r"," ","v","i",
                      "a"," ","P","y","o","d","i","d","e"," ","f","o","r"," ","s","e","c","u","r","i","t","y",
                      ".">>)

UnifiedTools_run_blueprint_tests(self, test_file_path) ==
    LET test_content == Get(self.project_files, test_file_path)
    IN  IF ~HasKey(self.project_files, test_file_path)
        THEN Return(self, CrossMark \o <<" ","T","e","s","t"," ","f","i","l","e"," ","n","o","t"," ","f","o","u","n","d",":"," ">> \o test_file_path)
        ELSE IF ~Contains(test_content, <<"d","e","f"," ","t","e","s","t","_">>) /\ ~Contains(test_content, <<"c","l","a","s","s"," ","T","e","s","t">>)
        THEN Return(self,
                 WarningMark \o <<" ">> \o test_file_path
                 \o <<" ","d","o","e","s","n","'","t"," ","l","o","o","k"," ","l","i","k","e"," ","a"," ","p",
                      "y","t","e","s","t"," ","t","e","s","t"," ","f","i","l","e",".","\n">>
                 \o <<"T","e","s","t"," ","f","u","n","c","t","i","o","n","s"," ","s","h","o","u","l","d"," ",
                      "s","t","a","r","t"," ","w","i","t","h"," ","'","t","e","s","t","_","'"," ","o","r"," ",
                      "b","e"," ","i","n"," ","a"," ","c","l","a","s","s"," ","s","t","a","r","t","i","n","g",
                      " ","w","i","t","h"," ","'","T","e","s","t","'">>)
        ELSE Return(self,
                 CheckMark \o <<" ","T","e","s","t"," ","f","i","l","e"," ","r","e","a","d","y",":"," ">> \o test_file_path \o <<"\n","\n">>
                 \o <<"T","o"," ","r","u","n"," ","t","e","s","t","s",":","\n">>
                 \o <<"1","."," ","M","a","k","e"," ","s","u","r","e"," ","y","o","u","r"," ","b","l","u","e",
                      "p","r","i","n","t"," ","i","s"," ","c","o","m","p","i","l","e","d","\n">>
                 \o <<"2","."," ","C","l","i","c","k"," ","'","R","u","n"," ","T","e","s","t","s","'"," ","i",
                      "n"," ","t","h","e"," ","I","D","E","\n">>
                 \o <<"3","."," ","V","i","e","w"," ","t","e","s","t"," ","r","e","s","u","l","t","s"," ","i",
                      "n"," ","t","h","e"," ","c","o","n","s","o","l","e","\n","\n">>
                 \o <<"N","o","t","e",":"," ","T","e","s","t","s"," ","r","u","n"," ","i","n"," ","b","r","o",
                      "w","s","e","r"," ","v","i","a"," ","P","y","o","d","i","d","e"," ","p","y","t","e","s",
                      "t",".">>)

\* range(i + 1, min(i + 5, len(lines))): how far below a decorator a def is looked for
LookAhead == 4

UnifiedTools_list_blueprint_methods(self, file_path) ==
    LET code == Get(self.project_files, file_path)
        lines == Split(code, "\n")
        IsDef(j) == StartsWith(Strip(lines[j]), <<"d","e","f"," ">>)
        Decorated == {i \in 1..Len(lines) :
                         Contains(lines[i], <<"@","p","u","b","l","i","c">>) \/ Contains(lines[i], <<"@","v","i","e","w">>)}
        Below(i) == {j \in (i + 1)..(i + LookAhead) : j <= Len(lines) /\ IsDef(j)}
        DefOf(i) == CHOOSE j \in Below(i) : \A k \in Below(i) : j <= k
        Methods(public) ==
            LET at == SelectSeq([i \in 1..Len(lines) |-> i],
                                LAMBDA i : /\ i \in Decorated
                                           /\ Contains(lines[i], <<"@","p","u","b","l","i","c">>) = public
                                           /\ Below(i) # {})
            IN  [k \in 1..Len(at) |-> Strip(lines[DefOf(at[k])])]
        public_methods == Methods(TRUE)
        view_methods == Methods(FALSE)
        Indented(ms) == Join(<<"\n">>, [i \in 1..Len(ms) |-> <<" "," ">> \o ms[i]])
    IN  IF ~HasKey(self.project_files, file_path)
        THEN Return(self, CrossMark \o <<" ","F","i","l","e"," ","n","o","t"," ","f","o","u","n","d",":"," ">> \o file_path)
        ELSE IF Len(public_methods) = 0 /\ Len(view_methods) = 0
        THEN Return(self, <<"N","o"," ","@","p","u","b","l","i","c"," ","o","r"," ","@","v","i","e","w"," ","m","e",
                            "t","h","o","d","s"," ","f","o","u","n","d"," ","i","n"," ">> \o file_path)
        ELSE Return(self,
                 <<"M","e","t","h","o","d","s"," ","i","n"," ">> \o file_path \o <<":","\n","\n">>
                 \o (IF Len(public_methods) > 0
                     THEN <<"U+F8FF","U+00FC","U+00EC","U+00F9"," ","@","p","u","b","l","i","c"," ","m","e","t","h","o","d","s"," ","(",
                            "s","t","a","t","e","-","c","h","a","n","g","i","n","g",")",":","\n">>
                          \o Indented(public_methods) \o <<"\n","\n">>
                     ELSE <<>>)
                 \o (IF Len(view_methods) > 0
                     THEN <<"U+F8FF","U+00FC","U+00EB","U+00C5","U+00D4","U+220F","U+00E8"," "," ","@","v","i","e","w"," ","m","e","t","h","o","d","s",
                            " ","(","r","e","a","d","-","o","n","l","y",")",":","\n">>
                          \o Indented(view_methods)
                     ELSE <<>>))

-----------------------------------------------------------------------------
(* The detector on its own: detect_environment applied to a request *)

DetectPaths ==
    { <<"/","b","l","u","e","p","r","i","n","t","s","/","b",".","p","y">>, <<"/","c","o","n","t","r","a","c","t","s","/","c",".","p","y">>, <<"/","b","l","u","e","p","r","i","n","t","s","/","r",".","m","d">>,
      <<"/","t","e","s","t","s","/","t",".","p","y">>, <<"/","d","a","p","p","/","a">>, <<"/","s","r","c","/","n">> }

DetectContents == { <<"A">>, <<"@","v","i","e","w">>, <<"u","s","e"," ","c","l","i","e","n","t">> }

DetectMessages ==
    { <<>>, <<"f","i","x"," ","i","t">>, <<"C","o","m","p","i","l","e"," ","c","t","x">>, <<"d","A","p","p"," ","p","a","g","e">>, <<"a"," ","b","u","t","t","o","n"," ","f","o","r"," ","c","t","x">>,
      <<"c","o","m","p","i","l","e"," ","c","t","x"," ","u","i">>, <<"u","i"," ","p","a","g","e"," ","c","t","x">> }

InitDetect ==
    /\ pc = "request"
    /\ chat_request \in [message : DetectMessages, project_id : {<<"p">>},
                         files : DictsUpTo(DetectPaths, DetectContents, MaxFiles)]
    /\ env_context = None
    /\ unified_tools = None
    /\ agent_tools = {}
    /\ messages = <<>>
    /\ response = None
    /\ file_tools = None
    /\ outcome = None
    /\ beam_service = None
    /\ heap = None

\* unified_chat, step 1: detect the environment of the request
DetectEnvironment ==
    /\ pc = "request"
    /\ env_context' = <<detect_environment(chat_request.files, chat_request.message)>>
    /\ pc' = "detected"
    /\ UNCHANGED <<chat_request, unified_tools, agent_tools, messages, response, file_tools, outcome, beam_service, heap>>

NextDetect == DetectEnvironment

SpecDetect == InitDetect /\ [][NextDetect]_vars

-----------------------------------------------------------------------------
(* api/unified_chat.py: one turn of unified_chat *)

MAX_FILES == 100
MAX_FILE_SIZE == 1000000
MAX_MESSAGE_LENGTH == 10000

UnifiedChatResponse(success, message, environment, confidence, tool_calls, updated_files, sandbox_url, error) ==
    [success |-> success, message |-> message, environment |-> environment,
     confidence |-> confidence, tool_calls |-> tool_calls, updated_files |-> updated_files,
     sandbox_url |-> sandbox_url, error |-> error]

\* a response that keeps the defaults of tool_calls, updated_files and sandbox_url
Failed(error, message, environment, confidence) ==
    UnifiedChatResponse(FALSE, message, environment, confidence, <<>>, <<>>, None, <<error>>)

ToolCall(tool, args, result) == [tool |-> tool, args |-> args, result |-> result]

SharedToolNames == {"list_files", "read_file", "write_file", "get_project_structure"}

BlueprintToolNames ==
    {"validate_blueprint", "compile_blueprint", "run_blueprint_tests", "list_blueprint_methods"}

DappToolNames ==
    {"grep", "run_command", "get_sandbox_logs", "restart_dev_server",
     "bootstrap_nextjs_project", "download_sandbox_files"}

\* Step 8: the functions decorated with @agent.tool
RegisteredTools(enable_blueprints, enable_dapps) ==
    SharedToolNames
    \cup (IF enable_blueprints THEN BlueprintToolNames ELSE {})
    \cup (IF enable_dapps THEN DappToolNames ELSE {})

\* result[:200] of the read_file record, result[:300] of the get_sandbox_logs record
ReadFileShown == 200
SandboxLogsShown == 300

\* result[:n] + "..." if len(result) > n else result
Shorten(result, n) ==
    IF Len(result) > n THEN SubSeq(result, 1, n) \o <<".",".",".">> ELSE result

\* The parts of the run's messages that the handler reads: the call the model
\* asked for (tool_name, args) and what the tool returned (tool_name, content)
ToolCallPart(tool_name, args) == [tool_name |-> tool_name, args |-> args]
ToolReturnPart(tool_name, content) == [tool_name |-> tool_name, content |-> content]

\* Step 10, first half: the ToolCall records read off the parts of the messages.
\* args_have_keys tells whether part.args is a dict; the args of a call that
\* arrive as JSON text have no keys(), the AttributeError ends the extraction
\* and what was collected before it is kept.
RECURSIVE extracted_tool_calls(_, _)
extracted_tool_calls(parts, args_have_keys) ==
    IF Len(parts) = 0 THEN <<>>
    ELSE LET part == Head(parts)
             has_args == "args" \in DOMAIN part
             has_content == "content" \in DOMAIN part
         IN  IF has_args /\ ~args_have_keys THEN <<>>
             ELSE <<ToolCall(part.tool_name,
                             IF has_args THEN part.args ELSE <<>>,
                             IF has_content THEN StrOf(part.content) ELSE <<>>)>>
                  \o extracted_tool_calls(Tail(parts), args_have_keys)

\* Step 10, second half: the calls tracked by UnifiedTools
tracked_tool_calls(tools) ==
    [i \in 1..Len(tools.tool_calls) |->
        ToolCall(tools.tool_calls[i].tool, tools.tool_calls[i].args,
                 tools.tool_calls[i].result)]

\* the entries of store that are new or changed against the files of the request
ChangedFiles(store, request_files) ==
    SelectSeq(store, LAMBDA e : ~HasKey(request_files, e[1]) \/ Get(request_files, e[1]) # e[2])

\* Step 11 with project_files only: the variant C2 is checked against
updated_files_of_project_files(tools, request_files) ==
    Update(<<>>, ChangedFiles(tools.project_files, request_files))

\* Step 11: first project_files, then file_tools.files when there is a file_tools
updated_files(tools, request_files) ==
    LET first == Update(<<>>, ChangedFiles(tools.project_files, request_files))
    IN  IF tools.file_tools # None
        THEN Update(first, ChangedFiles(tools.file_tools[1].files, request_files))
        ELSE first

\* Step 12: beam is how the call of beam_service.get_sandbox_info ended
sandbox_url(enable_dapps, beam) ==
    IF enable_dapps /\ ~beam.raised /\ beam.value # None /\ HasKey(beam.value, "url")
    THEN <<Get(beam.value, "url")>>
    ELSE None

\* What the turns of the model are given and what their agent asks for
TurnPaths == { <<"/","d","a","p","p","/","a">>, <<"/","b","l","u","e","p","r","i","n","t","s","/","b",".","p","y">> }
TurnContents == { <<"A">> }
TurnMessages == { <<"f","i","x"," ","i","t">> }
WritePaths == { <<"/","d","a","p","p","/","a">>, <<"/","b","l","u","e","p","r","i","n","t","s","/","b",".","p","y">>, <<"t","e","s","t","s","/","a">>, <<"x","/","a">> }
WriteContents == { <<"A">>, <<"B">> }
ListPaths == { <<"/">>, <<"/","d","a","p","p">> }
BlueprintPaths == { <<"/","b","l","u","e","p","r","i","n","t","s","/","b",".","p","y">> }
TestPaths == { <<"/","t","e","s","t","s","/","a">> }
GrepPatterns == { <<"a">> }
Commands == { <<"l","s">> }
LogLines == { 30 }

\* How a call of the sandbox service ends: it raises, or it returns a value.
\* The ways a call can end are listed in a tuple.
Raised(exc, msg) == [raised |-> TRUE, value |-> [exc |-> exc, msg |-> msg]]
Returned(value) == [raised |-> FALSE, value |-> value]

NoSandbox == Raised("ValueError", <<"N","o"," ","s","a","n","d","b","o","x"," ","f","o","u","n","d"," ","f","o","r"," ","p",
                                    "r","o","j","e","c","t"," ","p">>)

\* get_ai_model(): the configured model, or ValueError
AiModels == << Returned("model"), Raised("ValueError", <<"O","p","e","n","A","I"," ","A","P","I"," ","k","e","y"," ","n","o","t"," ","c","o","n",
                                                         "f","i","g","u","r","e","d">>) >>

RunCommandOutcomes ==
    << NoSandbox, Returned([stdout |-> <<"a">>, stderr |-> <<>>, exit_code |-> 0]) >>
RecentLogsOutcomes == << NoSandbox, Returned(<<"r","e","a","d","y">>) >>
RestartOutcomes == << NoSandbox, Returned(<< <<"url", <<"h","t","t","p","s",":","/","/","s">>>> >>) >>
BootstrapOutcomes == << NoSandbox, Returned(<< <<<<"/","d","a","p","p","/","p">>, <<"N">>>> >>) >>
DownloadOutcomes == << NoSandbox, Returned(<< <<<<"/","d","a","p","p","/","a">>, <<"S">>>> >>) >>
SandboxInfoOutcomes ==
    << NoSandbox, Returned(None), Returned(<< <<"url", <<"h","t","t","p","s",":","/","/","s">>>> >>) >>

\* agent.run() raising: the empty response of Gemini, or anything else
AgentErrors == { <<"F","i","e","l","d"," ","r","e","q","u","i","r","e","d",":"," ","c","a","n","d","i","d",
                   "a","t","e","s">>, <<"t","i","m","e","o","u","t">> }

Init ==
    /\ pc = "request"
    /\ chat_request \in [message : TurnMessages, project_id : {<<"p">>},
                         files : DictsUpTo(TurnPaths, TurnContents, MaxFiles)]
    /\ env_context = None
    /\ unified_tools = None
    /\ agent_tools = {}
    /\ messages = <<>>
    /\ response = None
    /\ file_tools = None
    /\ outcome = None
    /\ beam_service = None
    /\ heap = None

\* unified_chat up to agent.run(): the size checks, steps 1 to 4 and the
\* registration of the tools (step 8); steps 5 to 7 build the prompt only
Start ==
    /\ pc = "request"
    /\ \E m \in DOMAIN AiModels : LET model == AiModels[m] IN
        LET files == chat_request.files
            oversized == {i \in 1..Len(files) : Len(files[i][2]) > MAX_FILE_SIZE}
            context == detect_environment(files, chat_request.message)
            enable_blueprints == should_enable_blueprint_tools(context)
            enable_dapps == should_enable_dapp_tools(context)
            Refuse(error) ==
                /\ response' = <<Failed(error, <<>>, <<"u","n","k","n","o","w","n">>, 0)>>
                /\ pc' = "done"
                /\ UNCHANGED <<env_context, unified_tools, agent_tools, heap>>
        IN  IF Len(files) > MAX_FILES
            THEN Refuse(<<"T","o","o"," ","m","a","n","y"," ","f","i","l","e","s"," ","(","m","a","x"," ">> \o IntToStr(MAX_FILES) \o <<")">>)
            ELSE IF Len(chat_request.message) > MAX_MESSAGE_LENGTH
            THEN Refuse(<<"M","e","s","s","a","g","e"," ","t","o","o"," ","l","o","n","g"," ","(","m","a","x"," ">> \o IntToStr(MAX_MESSAGE_LENGTH)
                        \o <<" ","c","h","a","r","s",")">>)
            ELSE IF oversized # {}
            THEN Refuse(<<"F","i","l","e"," ">>
                        \o files[CHOOSE i \in oversized : \A j \in oversized : i <= j][1]
                        \o <<" ","t","o","o"," ","l","a","r","g","e"," ","(","m","a","x"," ">> \o IntToStr(MAX_FILE_SIZE) \o <<" ","b","y","t","e","s",")">>)
            ELSE /\ env_context' = <<context>>
                 /\ unified_tools' = <<UnifiedTools(files, chat_request.project_id,
                                                    enable_blueprints, enable_dapps)>>
                 /\ IF model.raised
                    THEN /\ response' = <<Failed(model.value.msg,
                                                 <<"A","I"," ","p","r","o","v","i","d","e","r"," ","n","o","t"," ","c","o","n","f","i","g",
                                                   "u","r","e","d">>,
                                                 context.env_type, context.confidence)>>
                         /\ agent_tools' = {}
                         /\ pc' = "done"
                    ELSE /\ response' = None
                         /\ agent_tools' = RegisteredTools(enable_blueprints, enable_dapps)
                         /\ pc' = "running"
    /\ UNCHANGED <<chat_request, messages, file_tools, outcome, beam_service, heap>>

\* the agent may call the tool: it is registered and the run goes on
CanCall(tool_name) ==
    /\ pc = "running"
    /\ tool_name \in agent_tools
    /\ Len(messages) < 2 * MaxCalls

\* What every registered function does with the result r of the method it
\* calls: it tracks the call, with the result as shown, and hands r.value back.
\* call_args are the arguments the model gave, args the ones that are tracked.
ToolInvoked(tool_name, call_args, args, r, shown) ==
    /\ unified_tools' = <<_track_tool_call(r.self, tool_name, args, shown)>>
    /\ messages' = messages \o <<ToolCallPart(tool_name, call_args),
                                 ToolReturnPart(tool_name, r.value)>>
    /\ UNCHANGED <<pc, chat_request, env_context, agent_tools, response, file_tools, outcome, beam_service, heap>>

ToolCalled(tool_name, args, r, shown) == ToolInvoked(tool_name, args, args, r, shown)

list_files ==
    /\ CanCall("list_files")
    /\ \E path \in ListPaths :
        LET r == UnifiedTools_list_files(unified_tools[1], path)
        IN  ToolCalled("list_files", << <<"path", path>> >>, r, StrOf(r.value))

read_file ==
    /\ CanCall("read_file")
    /\ \E path \in WritePaths :
        LET r == UnifiedTools_read_file(unified_tools[1], path)
        IN  ToolCalled("read_file", << <<"path", path>> >>, r, Shorten(r.value, ReadFileShown))

write_file ==
    /\ CanCall("write_file")
    /\ \E path \in WritePaths, content \in WriteContents :
        LET r == UnifiedTools_write_file(unified_tools[1], path, content)
        IN  ToolInvoked("write_file",
                        << <<"path", path>>, <<"content", content>> >>,
                        << <<"path", path>>, <<"content_length", Len(content)>> >>,
                        r, r.value)

get_project_structure ==
    /\ CanCall("get_project_structure")
    /\ LET r == UnifiedTools_get_project_structure(unified_tools[1])
       IN  ToolCalled("get_project_structure", <<>>, r, r.value)

validate_blueprint ==
    /\ CanCall("validate_blueprint")
    /\ \E file_path \in BlueprintPaths :
        LET r == UnifiedTools_validate_blueprint(unified_tools[1], file_path)
        IN  ToolCalled("validate_blueprint", << <<"file_path", file_path>> >>, r, r.value)

compile_blueprint ==
    /\ CanCall("compile_blueprint")
    /\ \E file_path \in BlueprintPaths :
        LET r == UnifiedTools_compile_blueprint(unified_tools[1], file_path)
        IN  ToolCalled("compile_blueprint", << <<"file_path", file_path>> >>, r, r.value)

run_blueprint_tests ==
    /\ CanCall("run_blueprint_tests")
    /\ \E test_file_path \in TestPaths :
        LET r == UnifiedTools_run_blueprint_tests(unified_tools[1], test_file_path)
        IN  ToolCalled("run_blueprint_tests", << <<"test_file_path", test_file_path>> >>,
                       r, r.value)

list_blueprint_methods ==
    /\ CanCall("list_blueprint_methods")
    /\ \E file_path \in BlueprintPaths :
        LET r == UnifiedTools_list_blueprint_methods(unified_tools[1], file_path)
        IN  ToolCalled("list_blueprint_methods", << <<"file_path", file_path>> >>, r, r.value)

grep ==
    /\ CanCall("grep")
    /\ \E pattern \in GrepPatterns, path \in { <<"/">> } :
        LET r == UnifiedTools_grep(unified_tools[1], pattern, path)
        IN  ToolCalled("grep", << <<"pattern", pattern>>, <<"path", path>> >>,
                       r, StrOf(r.value))

run_command ==
    /\ CanCall("run_command")
    /\ \E command \in Commands, b \in DOMAIN RunCommandOutcomes :
        LET beam == RunCommandOutcomes[b] IN
        LET r == UnifiedTools_run_command(unified_tools[1], command, beam)
        IN  ToolCalled("run_command", << <<"command", command>> >>, r, r.value)

get_sandbox_logs ==
    /\ CanCall("get_sandbox_logs")
    /\ \E lines \in LogLines, b \in DOMAIN RecentLogsOutcomes :
        LET beam == RecentLogsOutcomes[b] IN
        LET r == UnifiedTools_get_sandbox_logs(unified_tools[1], lines, beam)
        IN  ToolCalled("get_sandbox_logs", << <<"lines", lines>> >>, r,
                       Shorten(r.value, SandboxLogsShown))

restart_dev_server ==
    /\ CanCall("restart_dev_server")
    /\ \E b \in DOMAIN RestartOutcomes :
        LET beam == RestartOutcomes[b] IN
        LET r == UnifiedTools_restart_dev_server(unified_tools[1], beam)
        IN  ToolCalled("restart_dev_server", <<>>, r, r.value)

bootstrap_nextjs_project ==
    /\ CanCall("bootstrap_nextjs_project")
    /\ \E use_typescript \in {TRUE}, use_tailwind \in {TRUE}, b \in DOMAIN BootstrapOutcomes :
        LET beam == BootstrapOutcomes[b] IN
        LET r == UnifiedTools_bootstrap_nextjs_project(unified_tools[1], use_typescript,
                                                       use_tailwind, beam)
        IN  ToolCalled("bootstrap_nextjs_project",
                       << <<"use_typescript", use_typescript>>,
                          <<"use_tailwind", use_tailwind>> >>, r, r.value)

download_sandbox_files ==
    /\ CanCall("download_sandbox_files")
    /\ \E b \in DOMAIN DownloadOutcomes :
        LET beam == DownloadOutcomes[b] IN
        LET r == UnifiedTools_download_sandbox_files(unified_tools[1], beam)
        IN  ToolCalled("download_sandbox_files", <<>>, r, r.value)

\* Step 9 raising: the empty response of Gemini is answered with the detected
\* environment, every other error by the handler's outer except
AgentFails ==
    /\ pc = "running"
    /\ \E error_msg \in AgentErrors :
        response' =
            IF Contains(error_msg, <<"F","i","e","l","d"," ","r","e","q","u","i","r","e","d">>) /\ Contains(error_msg, <<"c","a","n","d","i","d","a","t","e","s">>)
            THEN <<Failed(
                     <<"T","h","e"," ","A","I"," ","m","o","d","e","l"," ","c","o","u","l","d","n","'","t"," ",
                       "g","e","n","e","r","a","t","e"," ","a"," ","r","e","s","p","o","n","s","e","."," ","T",
                       "h","i","s"," ","m","a","y"," ","b","e"," ","d","u","e"," ","t","o",":","\n">>
                     \o <<"-"," ","C","o","n","v","e","r","s","a","t","i","o","n"," ","h","i","s","t","o","r","y",
                          " ","i","s"," ","t","o","o"," ","l","o","n","g","\n">>
                     \o <<"-"," ","I","n","p","u","t"," ","c","o","n","t","a","i","n","s"," ","p","r","o","b","l",
                          "e","m","a","t","i","c"," ","c","o","n","t","e","n","t","\n">>
                     \o <<"-"," ","A","P","I"," ","r","a","t","e"," ","l","i","m","i","t","s","\n","\n","T","r","y",
                          ":","\n","-"," ","C","l","e","a","r"," ","c","h","a","t"," ","h","i","s","t","o","r","y",
                          "\n">>
                     \o <<"-"," ","S","i","m","p","l","i","f","y"," ","y","o","u","r"," ","r","e","q","u","e","s",
                          "t","\n","-"," ","W","a","i","t"," ","a"," ","m","o","m","e","n","t"," ","a","n","d"," ",
                          "t","r","y"," ","a","g","a","i","n">>,
                     <<"I","'","m"," ","h","a","v","i","n","g"," ","t","r","o","u","b","l","e"," ","p","r","o",
                       "c","e","s","s","i","n","g"," ","t","h","i","s"," ","r","e","q","u","e","s","t","."," ">>
                     \o <<"P","l","e","a","s","e"," ","t","r","y"," ","c","l","e","a","r","i","n","g"," ","t","h",
                          "e"," ","c","h","a","t"," ","o","r"," ","s","i","m","p","l","i","f","y","i","n","g"," ",
                          "y","o","u","r"," ","m","e","s","s","a","g","e",".">>,
                     env_context[1].env_type, env_context[1].confidence)>>
            ELSE <<Failed(error_msg, <<"S","o","r","r","y",","," ","I"," ","e","n","c","o","u","n","t","e","r","e","d"," ","a",
                                       "n"," ","e","r","r","o","r","."," ","P","l","e","a","s","e"," ","t","r","y"," ","a","g",
                                       "a","i","n",".">>,
                          <<"u","n","k","n","o","w","n">>, 0)>>
    /\ pc' = "done"
    /\ UNCHANGED <<chat_request, env_context, unified_tools, agent_tools, messages,
                   file_tools, outcome, beam_service, heap>>

\* Steps 10 to 13 after agent.run() returned: the tool calls, the updated
\* files and the sandbox URL of the response
Finish ==
    /\ pc = "running"
    /\ \E args_have_keys \in BOOLEAN, b \in DOMAIN SandboxInfoOutcomes :
        LET beam == SandboxInfoOutcomes[b] IN
        response' = <<UnifiedChatResponse(
                        TRUE, <<"D","o","n","e">>,
                        env_context[1].env_type, env_context[1].confidence,
                        extracted_tool_calls(messages, args_have_keys)
                        \o tracked_tool_calls(unified_tools[1]),
                        updated_files(unified_tools[1], chat_request.files),
                        sandbox_url(unified_tools[1].enable_dapp_tools, beam),
                        None)>>
    /\ pc' = "done"
    /\ UNCHANGED <<chat_request, env_context, unified_tools, agent_tools, messages,
                   file_tools, outcome, beam_service, heap>>

Next ==
    \/ Start
    \/ list_files
    \/ read_file
    \/ write_file
    \/ get_project_structure
    \/ validate_blueprint
    \/ compile_blueprint
    \/ run_blueprint_tests
    \/ list_blueprint_methods
    \/ grep
    \/ run_command
    \/ get_sandbox_logs
    \/ restart_dev_server
    \/ bootstrap_nextjs_project
    \/ download_sandbox_files
    \/ AgentFails
    \/ Finish

Spec == Init /\ [][Next]_vars

-----------------------------------------------------------------------------
(* Turns of requests that supply force_environment, without tool calls *)

ForcedPaths == { <<"/","d","a","p","p","/","a">>, <<"/","b","l","u","e","p","r","i","n","t","s","/","b",".","p","y">>, <<"/","s","r","c","/","n">> }
ForcedMessages == { <<"f","i","x"," ","i","t">>, <<"d","A","p","p"," ","p","a","g","e">> }

\* UnifiedChatRequest with its optional field: a kind, or None
InitForced ==
    /\ pc = "request"
    /\ chat_request \in [message : ForcedMessages, project_id : {<<"p">>},
                         files : DictsUpTo(ForcedPaths, TurnContents, MaxFiles),
                         force_environment : {None} \cup {<<kind>> : kind \in EnvironmentType}]
    /\ env_context = None
    /\ unified_tools = None
    /\ agent_tools = {}
    /\ messages = <<>>
    /\ response = None
    /\ file_tools = None
    /\ outcome = None
    /\ beam_service = None
    /\ heap = None

NextForced ==
    \/ Start
    \/ AgentFails
    \/ Finish

SpecForced == InitForced /\ [][NextForced]_vars

-----------------------------------------------------------------------------

(* FileTools on its own: calls of its file methods on one instance *)

FilePaths == { <<"/","d","a","p","p","/","a">>, <<"/","d","a","p","p","/","x","/","A">>, <<"/","d","a","p","p","/","b","a">>, <<"/","x","/","a">> }
FileContents == { <<"A">>, <<"B">> }

\* how a call ended: the method, the path it was given, and its result
Outcome(op, path, r) == [op |-> op, path |-> path, raised |-> r.raised, value |-> r.value]

InitFiles ==
    /\ pc = "files"
    /\ chat_request = None
    /\ env_context = None
    /\ unified_tools = None
    /\ agent_tools = {}
    /\ messages = <<>>
    /\ response = None
    /\ file_tools \in {<<FileTools(files, <<"p">>)>> :
                          files \in DictsUpTo(FilePaths, FileContents, MaxFiles)}
    /\ outcome = None
    /\ beam_service = None
    /\ heap = None

\* a call of a method of the instance ended as r
FileToolsCalled(op, path, r) ==
    /\ file_tools' = <<r.self>>
    /\ outcome' = <<Outcome(op, path, r)>>
    /\ UNCHANGED <<pc, chat_request, env_context, unified_tools, agent_tools, messages,
                   response, beam_service, heap>>

FileToolsList ==
    /\ pc = "files"
    /\ \E path \in { <<"/">>, <<"/","d","a","p","p">> } :
        FileToolsCalled("list_files", path, FileTools_list_files(file_tools[1], path))

FileToolsRead ==
    /\ pc = "files"
    /\ \E path \in FilePaths :
        FileToolsCalled("read_file", path, FileTools_read_file(file_tools[1], path))

FileToolsWrite ==
    /\ pc = "files"
    /\ \E path \in FilePaths, content \in FileContents :
        FileToolsCalled("write_file", path,
                        FileTools_write_file(file_tools[1], path, content))

FileToolsDelete ==
    /\ pc = "files"
    /\ \E path \in FilePaths :
        FileToolsCalled("delete_file", path, FileTools_delete_file(file_tools[1], path))

NextFiles ==
    \/ FileToolsList
    \/ FileToolsRead
    \/ FileToolsWrite
    \/ FileToolsDelete

SpecFiles == InitFiles /\ [][NextFiles]_vars

-----------------------------------------------------------------------------
(* The blueprint tools on their own: validate_blueprint and compile_blueprint
   applied to one stored file *)

\* how many blocks a stored source is made of, at most
MaxBlocks == 2

\* the blocks the sources are made of; each compiles at the top level of a
\* Python module, and so does every sequence of them
BlueprintBlocks ==
    { <<"f","r","o","m"," ","h","a","t","h","o","r"," ","i","m","p","o","r","t"," ","x","\n","c",
        "l","a","s","s"," ","A","(","B","l","u","e","p","r","i","n","t",")",":","\n"," "," ","@",
        "p","u","b","l","i","c","\n"," "," ","d","e","f"," ","i","n","i","t","i","a","l","i","z",
        "e","(","s","e","l","f",")",":"," ","p","a","s","s","\n","_","_","b","l","u","e","p","r",
        "i","n","t","_","_"," ","="," ","A">>,
      <<"c","l","a","s","s"," ","A","(","B","l","u","e","p","r","i","n","t",")",":","\n"," "," ",
        "@","p","u","b","l","i","c","\n"," "," ","d","e","f"," ","i","n","i","t","i","a","l","i",
        "z","e","(","s","e","l","f",")",":"," ","p","a","s","s","\n","_","_","b","l","u","e","p",
        "r","i","n","t","_","_"," ","="," ","A">>,
      <<"c","l","a","s","s"," ","A",":"," ","p","a","s","s">>,
      <<"d","e","f"," ","_","_","i","n","i","t","_","_","(","s","e","l","f",")",":"," ","p","a",
        "s","s">>,
      <<"s","e","l","f",".","x"," ","="," ","{","}">>,
      <<"i","f"," ","x",":","\n"," "," ","s","e","l","f",".","y","=","[","]">>,
      <<"i","f"," ","x",":","\n","\t","s","e","l","f",".","z"," "," ","="," "," ","s","e","t","(",
        ")">>,
      <<"#"," ","s","e","l","f",".","x"," ","="," ","{","}">>,
      <<"@","p","u","b","l","i","c","\n","d","e","f"," ","f","(","c","t","x",")",":"," ","r","e",
        "t","u","r","n"," ","c","t","x",".","a","d","d","r","e","s","s">>,
      <<"s","e","l","f",".","x",".","y"," ","="," ","{","}">> }

\* the sources: the sequences of at most MaxBlocks blocks, one per line, and
\* the sources Python does not compile
BlueprintSources ==
    UNION { { Join(<<"\n">>, blocks) : blocks \in [1..k -> BlueprintBlocks] } : k \in 0..MaxBlocks }
    \cup { e[1] : e \in PythonSyntaxErrors }

BlueprintFilePaths == { <<"/","b","l","u","e","p","r","i","n","t","s","/","b",".","p","y">>, <<"/","c","o","n","t","r","a","c","t","s","/","c",".","p","y">>, <<"/","t","e","s","t","s","/","t",".","p","y">> }

InitBlueprints ==
    /\ pc = "blueprints"
    /\ chat_request = None
    /\ env_context = None
    /\ unified_tools \in { <<UnifiedTools(<< <<path, code>> >>, <<"p">>, TRUE, FALSE)>> :
                              path \in BlueprintFilePaths, code \in BlueprintSources }
    /\ agent_tools = {}
    /\ messages = <<>>
    /\ response = None
    /\ file_tools = None
    /\ outcome = None
    /\ beam_service = None
    /\ heap = None

\* a call of a blueprint tool of the instance ended as r
BlueprintToolCalled(op, path, r) ==
    /\ unified_tools' = <<r.self>>
    /\ outcome' = <<Outcome(op, path, r)>>
    /\ UNCHANGED <<pc, chat_request, env_context, agent_tools, messages, response, file_tools,
                   beam_service, heap>>

ValidateBlueprint ==
    /\ pc = "blueprints"
    /\ \E path \in BlueprintFilePaths :
        BlueprintToolCalled("validate_blueprint", path,
                            UnifiedTools_validate_blueprint(unified_tools[1], path))

CompileBlueprint ==
    /\ pc = "blueprints"
    /\ \E path \in BlueprintFilePaths :
        BlueprintToolCalled("compile_blueprint", path,
                            UnifiedTools_compile_blueprint(unified_tools[1], path))

NextBlueprints ==
    \/ ValidateBlueprint
    \/ CompileBlueprint

SpecBlueprints == InitBlueprints /\ [][NextBlueprints]_vars

-----------------------------------------------------------------------------
(* The shared file tools of the router on their own, with and without the
   dApp tools *)

RouterListPaths == { <<"/">>, <<"/","d","a","p","p">>, <<"/","d","a","p","p","/">> }

InitRouter ==
    /\ pc = "router"
    /\ chat_request = None
    /\ env_context = None
    /\ unified_tools \in { <<UnifiedTools(files, <<"p">>, enable_blueprint_tools,
                                          enable_dapp_tools)>> :
                              files \in DictsUpTo(FilePaths, FileContents, MaxFiles),
                              enable_blueprint_tools \in BOOLEAN,
                              enable_dapp_tools \in BOOLEAN }
    /\ agent_tools = {}
    /\ messages = <<>>
    /\ response = None
    /\ file_tools = None
    /\ outcome = None
    /\ beam_service = None
    /\ heap = None

\* a call of a shared file tool of the router ended as r
RouterCalled(op, path, r) ==
    /\ unified_tools' = <<r.self>>
    /\ outcome' = <<Outcome(op, path, r)>>
    /\ UNCHANGED <<pc, chat_request, env_context, agent_tools, messages, response,
                   file_tools, beam_service, heap>>

RouterListFiles ==
    /\ pc = "router"
    /\ \E path \in RouterListPaths :
        RouterCalled("list_files", path, UnifiedTools_list_files(unified_tools[1], path))

RouterReadFile ==
    /\ pc = "router"
    /\ \E path \in FilePaths :
        RouterCalled("read_file", path, UnifiedTools_read_file(unified_tools[1], path))

NextRouter ==
    \/ RouterListFiles
    \/ RouterReadFile

SpecRouter == InitRouter /\ [][NextRouter]_vars

-----------------------------------------------------------------------------

(* api/beam_service.py: BeamService.  What the Beam SDK does during a call is
   the parameter sdk: sandbox_id is the id of the sandbox Sandbox(...).create()
   gives (None when the creation raises), connects tells for each
   Sandbox().connect of the call, in order, whether it succeeds, exec tells
   whether the processes, the file system and the ports of the sandbox answer
   (FALSE: they raise), logs are the lines the processes write and files the
   files of the sandbox. *)

DEFAULT_CODE_PATH == <<"/","a","p","p">>

\* str(e) of what the SDK raises
SdkError == <<"c","o","n","n","e","c","t","i","o","n"," ","l","o","s","t">>

\* sandbox.expose_port(DEFAULT_PORT) of the sandbox with the id
ExposedUrl(sandbox_id) == <<"h","t","t","p","s",":","/","/">> \o sandbox_id

\* BeamService.__init__
BeamService == [sandboxes |-> <<>>, processes |-> <<>>, urls |-> <<>>]

\* s.replace(old, new)
RECURSIVE Replace(_, _, _)
Replace(s, old, new) ==
    IF Len(s) < Len(old) THEN s
    ELSE IF SubSeq(s, 1, Len(old)) = old
    THEN new \o Replace(SubSeq(s, Len(old) + 1, Len(s)), old, new)
    ELSE <<s[1]>> \o Replace(Tail(s), old, new)

BeamService_create_sandbox(self, project_id, sdk) ==
    IF sdk.sandbox_id = None \/ ~sdk.exec
    THEN Raise(self, "Exception", SdkError)
    ELSE LET sandbox_id == sdk.sandbox_id[1]
             url == ExposedUrl(sandbox_id)
         IN  Return([self EXCEPT !.sandboxes = Put(@, project_id, sandbox_id),
                                 !.urls = Put(@, project_id, url)],
                    << <<"url", url>>, <<"sandbox_id", sandbox_id>>,
                       <<"project_id", project_id>> >>)

\* the Sandbox it returns is told by its id
BeamService_get_sandbox(self, project_id, connected) ==
    IF ~HasKey(self.sandboxes, project_id) \/ Get(self.sandboxes, project_id) = <<>>
    THEN Return(self, None)
    ELSE IF connected
    THEN Return(self, <<Get(self.sandboxes, project_id)>>)
    ELSE Return([self EXCEPT !.sandboxes = Del(@, project_id)], None)

\* connected tells whether the Sandbox().connect of the call succeeds
BeamService_start_dev_server(self, project_id, connected, sdk) ==
    LET got == BeamService_get_sandbox(self, project_id, connected)
        sandbox == got.value
        cached == HasKey(got.self.urls, project_id) /\ Get(got.self.urls, project_id) # <<>>
        url == IF cached THEN Get(got.self.urls, project_id) ELSE ExposedUrl(sandbox[1])
    IN  IF sandbox = None
        THEN Raise(got.self, "ValueError", <<"N","o"," ","s","a","n","d","b","o","x"," ","f","o","u","n","d"," ","f","o","r"," ","p",
                                             "r","o","j","e","c","t"," ">> \o project_id)
        ELSE IF ~sdk.exec
        THEN Raise(got.self, "Exception", SdkError)
        ELSE Return([got.self EXCEPT
                        !.processes = Put(@, project_id, [sandbox |-> sandbox[1]]),
                        !.urls = IF cached THEN @ ELSE Put(@, project_id, url)],
                    << <<"status", <<"s","u","c","c","e","s","s">>>>, <<"url", url>>,
                       <<"project_id", project_id>> >>)

BeamService_upload_files(self, project_id, files, auto_start, sdk) ==
    LET first == BeamService_get_sandbox(self, project_id, sdk.connects[1])
        created == BeamService_create_sandbox(first.self, project_id, sdk)
        second == BeamService_get_sandbox(created.self, project_id, sdk.connects[2])
        got == IF first.value # None THEN first ELSE second
        started == BeamService_start_dev_server(got.self, project_id, sdk.connects[3], sdk)
    IN  IF first.value = None /\ created.raised
        THEN created
        ELSE IF got.value = None
        THEN Raise(got.self, "ValueError",
                   <<"C","o","u","l","d"," ","n","o","t"," ","g","e","t"," ","o","r"," ","c","r","e","a","t",
                     "e"," ","s","a","n","d","b","o","x"," ","f","o","r"," ","p","r","o","j","e","c","t"," ">> \o project_id)
        ELSE IF Len(files) > 0 /\ ~sdk.exec
        THEN Raise(got.self, "Exception", SdkError)
        ELSE Return(IF auto_start /\ ~HasKey(got.self.processes, project_id)
                    THEN started.self ELSE got.self,
                    << <<"status", <<"s","u","c","c","e","s","s">>>>, <<"project_id", project_id>>,
                       <<"files_uploaded", Len(files)>> >>)

BeamService_get_sandbox_info(self, project_id, sdk) ==
    LET got == BeamService_get_sandbox(self, project_id, sdk.connects[1])
        sandbox == got.value
        cached == HasKey(got.self.urls, project_id) /\ Get(got.self.urls, project_id) # <<>>
        url == IF cached THEN Get(got.self.urls, project_id) ELSE ExposedUrl(sandbox[1])
    IN  IF sandbox = None THEN Return(got.self, None)
        ELSE IF ~cached /\ ~sdk.exec THEN Return(got.self, None)
        ELSE Return([got.self EXCEPT !.urls = IF cached THEN @ ELSE Put(@, project_id, url)],
                    << <<"sandbox_id", sandbox[1]>>, <<"url", url>>,
                       <<"project_id", project_id>> >>)

\* the lines of the logs that tell of an error, or the others
LogLinesOf(logs, errors) ==
    SelectSeq(logs, LAMBDA log_line :
        (Contains(Lower(log_line), <<"e","r","r","o","r">>) \/ Contains(Lower(log_line), <<"f","a","i","l">>))
            <=> errors)

BeamService_run_command(self, project_id, command, sdk) ==
    LET got == BeamService_get_sandbox(self, project_id, sdk.connects[1])
    IN  IF got.value = None
        THEN Raise(got.self, "ValueError", <<"N","o"," ","s","a","n","d","b","o","x"," ","f","o","u","n","d"," ","f","o","r"," ","p",
                                             "r","o","j","e","c","t"," ">> \o project_id)
        ELSE IF ~sdk.exec
        THEN Return(got.self, [stdout |-> <<>>, stderr |-> <<"E","r","r","o","r",":"," ">> \o SdkError,
                               exit_code |-> <<"1">>, command |-> command])
        ELSE Return(got.self, [stdout |-> Join(<<"\n">>, LogLinesOf(sdk.logs, FALSE)),
                               stderr |-> Join(<<"\n">>, LogLinesOf(sdk.logs, TRUE)),
                               exit_code |-> <<"0">>, command |-> command])

BeamService_get_recent_logs(self, project_id, lines, sdk) ==
    LET wanted == IF lines < 1 THEN 1 ELSE lines
        log_lines == SubSeq(sdk.logs, 1, IF Len(sdk.logs) < wanted THEN Len(sdk.logs)
                                         ELSE wanted)
    IN  IF ~HasKey(self.processes, project_id)
        THEN Return(self, <<"N","o"," ","a","c","t","i","v","e"," ","p","r","o","c","e","s","s"," ","f","o","u","n",
                            "d","."," ","S","t","a","r","t"," ","t","h","e"," ","d","e","v"," ","s","e","r","v","e",
                            "r"," ","f","i","r","s","t",".">>)
        ELSE IF ~sdk.exec
        THEN Return(self, <<"E","r","r","o","r"," ","g","e","t","t","i","n","g"," ","l","o","g","s",":"," ">> \o SdkError)
        ELSE Return(self, IF Len(log_lines) > 0 THEN Join(<<"\n">>, log_lines)
                          ELSE <<"N","o"," ","l","o","g","s"," ","a","v","a","i","l","a","b","l","e"," ","y","e","t",".">>)

BeamService_restart_dev_server(self, project_id, sdk) ==
    BeamService_start_dev_server(
        [self EXCEPT !.processes = IF HasKey(@, project_id) THEN Del(@, project_id) ELSE @],
        project_id, sdk.connects[1], sdk)

\* connected tells whether the Sandbox().connect of the call succeeds.  A file
\* whose download fails is left out: sdk.files are the files that download
BeamService_download_files(self, project_id, connected, sdk) ==
    LET got == BeamService_get_sandbox(self, project_id, connected)
        path == DEFAULT_CODE_PATH
        file_paths == SelectSeq(Keys(sdk.files), LAMBDA file_path :
                          Strip(file_path) # <<>> /\ StartsWith(Strip(file_path), path))
        kept == SelectSeq(file_paths, LAMBDA file_path :
                    ~Contains(file_path, <<"n","o","d","e","_","m","o","d","u","l","e","s">>) /\ ~Contains(file_path, <<"/",".","n","e","x","t","/">>))
        Collect[k \in 0..Len(kept)] ==
            IF k = 0 THEN <<>>
            ELSE Put(Collect[k - 1],
                     Replace(Strip(kept[k]), DEFAULT_CODE_PATH \o <<"/">>, <<"/","d","a","p","p","/">>),
                     Get(sdk.files, kept[k]))
    IN  IF got.value = None
        THEN Raise(got.self, "ValueError", <<"N","o"," ","s","a","n","d","b","o","x"," ","f","o","u","n","d"," ","f","o","r"," ","p",
                                             "r","o","j","e","c","t"," ">> \o project_id)
        ELSE IF ~sdk.exec
        THEN Raise(got.self, "Exception", SdkError)
        ELSE Return(got.self, Collect[Len(kept)])

BeamService_bootstrap_nextjs(self, project_id, sdk) ==
    LET first == BeamService_get_sandbox(self, project_id, sdk.connects[1])
        created == BeamService_create_sandbox(first.self, project_id, sdk)
        second == BeamService_get_sandbox(created.self, project_id, sdk.connects[2])
        got == IF first.value # None THEN first ELSE second
    IN  IF first.value = None /\ created.raised
        THEN created
        ELSE IF got.value = None
        THEN Raise(got.self, "ValueError",
                   <<"C","o","u","l","d"," ","n","o","t"," ","g","e","t"," ","o","r"," ","c","r","e","a","t",
                     "e"," ","s","a","n","d","b","o","x"," ","f","o","r"," ","p","r","o","j","e","c","t"," ">> \o project_id)
        ELSE IF ~sdk.exec
        THEN Raise(got.self, "Exception", SdkError)
        ELSE BeamService_download_files(got.self, project_id, sdk.connects[3], sdk)

-----------------------------------------------------------------------------
(* The sandbox tools of one turn, on the BeamService of the process *)

SandboxIds == { <<"s","1">>, <<"s","2">>, <<"s","3">> }

\* process.logs and the files of a sandbox
SandboxLogs == << <<"r","e","a","d","y">>, <<"E","r","r","o","r",":"," ","x">> >>
SandboxFiles == << <<<<"/","a","p","p","/","p">>, <<"N">>>>, <<<<"/","a","p","p","/","n","o","d","e","_","m","o","d","u","l","e","s","/","m">>, <<"M">>>> >>

\* the most Sandbox().connect one call of the service makes
MaxConnects == 3

\* what the SDK may do during a call on the service that connects at most
\* connects times and creates a sandbox or not: a sandbox it creates has an id
\* that no project is registered with, a connect the call does not make succeeds
SdkBehaviours(service, creates, connects) ==
    [sandbox_id : {None} \cup {<<id>> : id \in IF creates
                                              THEN SandboxIds \ {service.sandboxes[i][2] :
                                                                    i \in 1..Len(service.sandboxes)}
                                              ELSE {}},
     connects : {c \in [1..MaxConnects -> BOOLEAN] : \A k \in (connects + 1)..MaxConnects : c[k]},
     exec : BOOLEAN,
     logs : {SandboxLogs},
     files : {SandboxFiles}]

\* how a call ended, and what the SDK did during it
SandboxOutcome(op, project_id, sdk, r) ==
    [op |-> op, path |-> project_id, sdk |-> sdk, raised |-> r.raised, value |-> r.value]

InitSandbox ==
    /\ pc = "sandbox"
    /\ chat_request = None
    /\ env_context = None
    /\ unified_tools \in { <<UnifiedTools(<< <<<<"/","d","a","p","p","/","a">>, <<"A">>>> >>, project_id, FALSE,
                                          enable_dapp_tools)>> :
                              project_id \in {<<"p">>, <<>>}, enable_dapp_tools \in BOOLEAN }
    /\ agent_tools = {}
    /\ messages = <<>>
    /\ response = None
    /\ file_tools = None
    /\ outcome = None
    /\ beam_service \in { <<BeamService>>,
                          <<[sandboxes |-> << <<<<"p">>, <<"s","1">>>> >>,
                             processes |-> << <<<<"p">>, [sandbox |-> <<"s","1">>]>> >>,
                             urls |-> << <<<<"p">>, ExposedUrl(<<"s","1">>)>> >>]>> }
    /\ heap = None

\* the tool of the turn reaches the service: the dApp tools are enabled and the
\* turn has a project id
ReachesBeam(tools) ==
    /\ tools.enable_dapp_tools
    /\ tools.file_tools # None
    /\ tools.file_tools[1].project_id # <<>>

\* a tool of the turn was called: r is the result of the method of the router,
\* beam the result of the call of the service it made, if it made one
TurnToolCalled(tool_name, args, r, shown, sdk, beam) ==
    /\ Len(unified_tools[1].tool_calls) < MaxCalls
    /\ unified_tools' = <<_track_tool_call(r.self, tool_name, args, shown)>>
    /\ beam_service' = IF ReachesBeam(unified_tools[1]) THEN <<beam.self>> ELSE beam_service
    /\ outcome' = <<SandboxOutcome(tool_name, unified_tools[1].project_id, sdk, r)>>
    /\ UNCHANGED <<pc, chat_request, env_context, agent_tools, messages, response, file_tools, heap>>

TurnRunCommand ==
    /\ pc = "sandbox"
    /\ \E command \in Commands, sdk \in SdkBehaviours(beam_service[1], FALSE, 1) :
        LET beam == BeamService_run_command(beam_service[1], unified_tools[1].project_id,
                                            command, sdk)
            r == UnifiedTools_run_command(unified_tools[1], command, beam)
        IN  TurnToolCalled("run_command", << <<"command", command>> >>, r, r.value, sdk, beam)

TurnGetSandboxLogs ==
    /\ pc = "sandbox"
    /\ \E lines \in LogLines, sdk \in SdkBehaviours(beam_service[1], FALSE, 0) :
        LET beam == BeamService_get_recent_logs(beam_service[1], unified_tools[1].project_id,
                                                lines, sdk)
            r == UnifiedTools_get_sandbox_logs(unified_tools[1], lines, beam)
        IN  TurnToolCalled("get_sandbox_logs", << <<"lines", StrOf(lines)>> >>, r,
                           Shorten(r.value, SandboxLogsShown), sdk, beam)

TurnRestartDevServer ==
    /\ pc = "sandbox"
    /\ \E sdk \in SdkBehaviours(beam_service[1], FALSE, 1) :
        LET beam == BeamService_restart_dev_server(beam_service[1],
                                                   unified_tools[1].project_id, sdk)
            r == UnifiedTools_restart_dev_server(unified_tools[1], beam)
        IN  TurnToolCalled("restart_dev_server", <<>>, r, r.value, sdk, beam)

TurnBootstrapNextjsProject ==
    /\ pc = "sandbox"
    /\ \E sdk \in SdkBehaviours(beam_service[1], TRUE, 3) :
        LET beam == BeamService_bootstrap_nextjs(beam_service[1],
                                                 unified_tools[1].project_id, sdk)
            r == UnifiedTools_bootstrap_nextjs_project(unified_tools[1], TRUE, TRUE, beam)
        IN  TurnToolCalled("bootstrap_nextjs_project",
                           << <<"use_typescript", StrOf(TRUE)>>, <<"use_tailwind", StrOf(TRUE)>> >>,
                           r, r.value, sdk, beam)

TurnDownloadSandboxFiles ==
    /\ pc = "sandbox"
    /\ \E sdk \in SdkBehaviours(beam_service[1], FALSE, 1) :
        LET beam == BeamService_download_files(beam_service[1], unified_tools[1].project_id,
                                               sdk.connects[1], sdk)
            r == UnifiedTools_download_sandbox_files(unified_tools[1], beam)
        IN  TurnToolCalled("download_sandbox_files", <<>>, r, r.value, sdk, beam)

\* a local tool of the turn, which calls no service
TurnWriteFile ==
    /\ pc = "sandbox"
    /\ Len(unified_tools[1].tool_calls) < MaxCalls
    /\ \E sdk \in SdkBehaviours(beam_service[1], FALSE, 0) :
        LET r == UnifiedTools_write_file(unified_tools[1], <<"/","d","a","p","p","/","a">>, <<"B">>)
        IN  /\ sdk.exec
            /\ unified_tools' = <<_track_tool_call(r.self, "write_file",
                                      << <<"path", <<"/","d","a","p","p","/","a">>>>, <<"content_length", StrOf(1)>> >>,
                                      r.value)>>
            /\ outcome' = <<SandboxOutcome("write_file", unified_tools[1].project_id, sdk, r)>>
    /\ UNCHANGED <<pc, chat_request, env_context, agent_tools, messages, response, file_tools,
                   beam_service, heap>>

NextSandbox ==
    \/ TurnRunCommand
    \/ TurnGetSandboxLogs
    \/ TurnRestartDevServer
    \/ TurnBootstrapNextjsProject
    \/ TurnDownloadSandboxFiles
    \/ TurnWriteFile

SpecSandbox == InitSandbox /\ [][NextSandbox]_vars

-----------------------------------------------------------------------------

(* The BeamService of the process on its own: the calls that the routes of
   api/beam.py and the sandbox tools make on it for one project, in a process
   that may hold the sandbox of another *)

ProjectIds == { <<"p">>, <<"q">> }

\* the project the calls are made for
CallingProjectIds == { <<"p">> }

InitBeam ==
    /\ pc = "beam"
    /\ chat_request = None
    /\ env_context = None
    /\ unified_tools = None
    /\ agent_tools = {}
    /\ messages = <<>>
    /\ response = None
    /\ file_tools = None
    /\ outcome = None
    /\ beam_service \in { <<BeamService>>,
                          <<[sandboxes |-> << <<<<"q">>, <<"s","3">>>> >>,
                             processes |-> <<>>,
                             urls |-> << <<<<"q">>, ExposedUrl(<<"s","3">>)>> >>]>> }
    /\ heap = None

\* a call of the service ended as r
ServiceCalled(op, project_id, sdk, r) ==
    /\ beam_service' = <<r.self>>
    /\ outcome' = <<SandboxOutcome(op, project_id, sdk, r)>>
    /\ UNCHANGED <<pc, chat_request, env_context, unified_tools, agent_tools, messages,
                   response, file_tools, heap>>

\* POST /sandbox/create
CreateSandbox ==
    /\ pc = "beam"
    /\ \E project_id \in CallingProjectIds, sdk \in SdkBehaviours(beam_service[1], TRUE, 0) :
        ServiceCalled("create_sandbox", project_id, sdk,
                      BeamService_create_sandbox(beam_service[1], project_id, sdk))

\* GET /sandbox/{project_id}
GetSandboxInfo ==
    /\ pc = "beam"
    /\ \E project_id \in CallingProjectIds, sdk \in SdkBehaviours(beam_service[1], FALSE, 1) :
        ServiceCalled("get_sandbox_info", project_id, sdk,
                      BeamService_get_sandbox_info(beam_service[1], project_id, sdk))

\* POST /sandbox/upload
UploadFiles ==
    /\ pc = "beam"
    /\ \E project_id \in CallingProjectIds, auto_start \in BOOLEAN,
          sdk \in SdkBehaviours(beam_service[1], TRUE, 3) :
        ServiceCalled("upload_files", project_id, sdk,
                      BeamService_upload_files(beam_service[1], project_id,
                                               << <<<<"/","d","a","p","p","/","a">>, <<"A">>>> >>, auto_start, sdk))

\* POST /sandbox/{project_id}/command, and the run_command tool
RunCommand ==
    /\ pc = "beam"
    /\ \E project_id \in CallingProjectIds, command \in Commands,
          sdk \in SdkBehaviours(beam_service[1], FALSE, 1) :
        ServiceCalled("run_command", project_id, sdk,
                      BeamService_run_command(beam_service[1], project_id, command, sdk))

\* GET /sandbox/{project_id}/files, and the download_sandbox_files tool
DownloadFiles ==
    /\ pc = "beam"
    /\ \E project_id \in CallingProjectIds, sdk \in SdkBehaviours(beam_service[1], FALSE, 1) :
        ServiceCalled("download_files", project_id, sdk,
                      BeamService_download_files(beam_service[1], project_id,
                                                 sdk.connects[1], sdk))

\* the bootstrap_nextjs_project tool
BootstrapNextjs ==
    /\ pc = "beam"
    /\ \E project_id \in CallingProjectIds, sdk \in SdkBehaviours(beam_service[1], TRUE, 3) :
        ServiceCalled("bootstrap_nextjs", project_id, sdk,
                      BeamService_bootstrap_nextjs(beam_service[1], project_id, sdk))

NextBeam ==
    \/ CreateSandbox
    \/ GetSandboxInfo
    \/ UploadFiles
    \/ RunCommand
    \/ DownloadFiles
    \/ BootstrapNextjs

SpecBeam == InitBeam /\ [][NextBeam]_vars

-----------------------------------------------------------------------------

(* Two turns of unified_chat at once.  Every variable of the turn is a pair,
   one component per turn, and the mappings of files are objects: heap gives
   the value of each by its identity, so that a mapping two references share
   changes for both.  The turns interleave at their awaits: a step is the
   handler up to agent.run(), one tool call, or the handler after the run. *)

TurnIds == {1, 2}

\* what chat_request.files of a concurrent turn may be
ConcurrentFiles ==
    { <<>>, << <<<<"/","d","a","p","p","/","a">>, <<"A">>>> >>, << <<<<"/","b","l","u","e","p","r","i","n","t","s","/","b",".","p","y">>, <<"A">>>> >> }

\* the identities of the three mappings of a turn
RequestFilesRef(i) == <<"chat_request.files", i>>
ProjectFilesRef(i) == <<"unified_tools.project_files", i>>
FileToolsFilesRef(i) == <<"file_tools.files", i>>

MappingRefs ==
    UNION { {RequestFilesRef(i), ProjectFilesRef(i), FileToolsFilesRef(i)} : i \in TurnIds }

\* d.copy() that hands d itself back: the variant C17 is checked against
dict_copy_without_copy(ref, fresh) == ref

\* d.copy(): the identity of the result, an object of its own
dict_copy(ref, fresh) == fresh

InitTurns ==
    /\ pc = [i \in TurnIds |-> "request"]
    /\ chat_request \in [TurnIds -> [message : TurnMessages, project_id : {<<"p">>},
                                     files : {RequestFilesRef(i) : i \in TurnIds}]]
    /\ \A i \in TurnIds : chat_request[i].files = RequestFilesRef(i)
    /\ env_context = [i \in TurnIds |-> None]
    /\ unified_tools = [i \in TurnIds |-> None]
    /\ agent_tools = [i \in TurnIds |-> {}]
    /\ messages = [i \in TurnIds |-> <<>>]
    /\ response = [i \in TurnIds |-> None]
    /\ file_tools = None
    /\ outcome = None
    /\ beam_service = None
    /\ heap \in [MappingRefs -> ConcurrentFiles]
    /\ \A i \in TurnIds : heap[ProjectFilesRef(i)] = <<>> /\ heap[FileToolsFilesRef(i)] = <<>>

\* the UnifiedTools instance of turn i with its mappings by value
RouterOf(i) ==
    LET tools == unified_tools[i][1]
    IN  [tools EXCEPT
            !.project_files = heap[tools.project_files],
            !.file_tools = IF tools.file_tools = None THEN None
                           ELSE <<[tools.file_tools[1] EXCEPT !.files = heap[@]]>>]

\* the heap after a method of the instance of turn i changed its mappings in
\* place: after is the instance by value when the method returned
Stored(i, after) ==
    LET tools == unified_tools[i][1]
        before == RouterOf(i)
        first == IF after.project_files # before.project_files
                 THEN [heap EXCEPT ![tools.project_files] = after.project_files]
                 ELSE heap
    IN  IF tools.file_tools # None /\ after.file_tools[1].files # before.file_tools[1].files
        THEN [first EXCEPT ![tools.file_tools[1].files] = after.file_tools[1].files]
        ELSE first

\* unified_chat up to agent.run() for turn i: the size checks, steps 1 to 4
\* and the registration of the tools
StartOf(i) ==
    /\ pc[i] = "request"
    /\ \E m \in DOMAIN AiModels : LET model == AiModels[m] IN
        LET request == chat_request[i]
            files == heap[request.files]
            oversized == {k \in 1..Len(files) : Len(files[k][2]) > MAX_FILE_SIZE}
            context == detect_environment(files, request.message)
            enable_blueprints == should_enable_blueprint_tools(context)
            enable_dapps == should_enable_dapp_tools(context)
            project_files == dict_copy(request.files, ProjectFilesRef(i))
            files_of_tools == dict_copy(project_files, FileToolsFilesRef(i))
            copied == [heap EXCEPT ![project_files] = heap[request.files]]
            Refuse(error) ==
                /\ response' = [response EXCEPT ![i] = <<Failed(error, <<>>, <<"u","n","k","n","o","w","n">>, 0)>>]
                /\ pc' = [pc EXCEPT ![i] = "done"]
                /\ UNCHANGED <<env_context, unified_tools, agent_tools, heap>>
        IN  IF Len(files) > MAX_FILES
            THEN Refuse(<<"T","o","o"," ","m","a","n","y"," ","f","i","l","e","s"," ","(","m","a","x"," ">> \o IntToStr(MAX_FILES) \o <<")">>)
            ELSE IF Len(request.message) > MAX_MESSAGE_LENGTH
            THEN Refuse(<<"M","e","s","s","a","g","e"," ","t","o","o"," ","l","o","n","g"," ","(","m","a","x"," ">> \o IntToStr(MAX_MESSAGE_LENGTH)
                        \o <<" ","c","h","a","r","s",")">>)
            ELSE IF oversized # {}
            THEN Refuse(<<"F","i","l","e"," ">>
                        \o files[CHOOSE k \in oversized : \A j \in oversized : k <= j][1]
                        \o <<" ","t","o","o"," ","l","a","r","g","e"," ","(","m","a","x"," ">> \o IntToStr(MAX_FILE_SIZE) \o <<" ","b","y","t","e","s",")">>)
            ELSE /\ env_context' = [env_context EXCEPT ![i] = <<context>>]
                 /\ heap' = IF enable_dapps
                            THEN [copied EXCEPT ![files_of_tools] = copied[project_files]]
                            ELSE copied
                 /\ unified_tools' =
                        [unified_tools EXCEPT ![i] =
                            <<[UnifiedTools(project_files, request.project_id,
                                            enable_blueprints, enable_dapps)
                                 EXCEPT !.file_tools =
                                     IF enable_dapps
                                     THEN <<FileTools(files_of_tools, request.project_id)>>
                                     ELSE None]>>]
                 /\ IF model.raised
                    THEN /\ response' = [response EXCEPT ![i] =
                                            <<Failed(model.value.msg,
                                                     <<"A","I"," ","p","r","o","v","i","d","e","r"," ","n","o","t"," ","c","o","n","f","i","g",
                                                       "u","r","e","d">>,
                                                     context.env_type, context.confidence)>>]
                         /\ agent_tools' = [agent_tools EXCEPT ![i] = {}]
                         /\ pc' = [pc EXCEPT ![i] = "done"]
                    ELSE /\ response' = response
                         /\ agent_tools' = [agent_tools EXCEPT ![i] =
                                               RegisteredTools(enable_blueprints, enable_dapps)]
                         /\ pc' = [pc EXCEPT ![i] = "running"]
    /\ UNCHANGED <<chat_request, messages, file_tools, outcome, beam_service>>

\* what the registered function of a local file tool does on the instance
\* tools: it calls the method, tracks the call and hands the result back
LocalToolCall(tools, tool_name, call_args) ==
    IF tool_name = "write_file"
    THEN LET r == UnifiedTools_write_file(tools, Get(call_args, "path"),
                                          Get(call_args, "content"))
         IN  [r EXCEPT !.self =
                 _track_tool_call(r.self, "write_file",
                     << <<"path", Get(call_args, "path")>>,
                        <<"content_length", Len(Get(call_args, "content"))>> >>,
                     r.value)]
    ELSE LET r == UnifiedTools_read_file(tools, Get(call_args, "path"))
         IN  [r EXCEPT !.self =
                 _track_tool_call(r.self, "read_file", call_args,
                                  Shorten(r.value, ReadFileShown))]

\* the agent of turn i calls a local file tool
ToolCallOf(i, tool_name, call_args) ==
    /\ pc[i] = "running"
    /\ tool_name \in agent_tools[i]
    /\ Len(messages[i]) < 2 * MaxCalls
    /\ LET r == LocalToolCall(RouterOf(i), tool_name, call_args)
       IN  /\ heap' = Stored(i, r.self)
           /\ unified_tools' = [unified_tools EXCEPT ![i] =
                                   <<[@[1] EXCEPT !.tool_calls = r.self.tool_calls]>>]
           /\ messages' = [messages EXCEPT ![i] =
                              @ \o <<ToolCallPart(tool_name, call_args),
                                     ToolReturnPart(tool_name, r.value)>>]
    /\ UNCHANGED <<pc, chat_request, env_context, agent_tools, response, file_tools,
                   outcome, beam_service>>

WriteFileOf(i) ==
    \E path \in TurnPaths :
        ToolCallOf(i, "write_file", << <<"path", path>>, <<"content", <<"B">>>> >>)

ReadFileOf(i) ==
    \E path \in BlueprintPaths :
        ToolCallOf(i, "read_file", << <<"path", path>> >>)

\* agent.run() of turn i raises
AgentFailsOf(i) ==
    /\ pc[i] = "running"
    /\ response' = [response EXCEPT ![i] =
                       <<Failed(<<"t","i","m","e","o","u","t">>, <<"S","o","r","r","y",","," ","I"," ","e","n","c","o","u","n","t","e","r","e","d"," ","a",
                                                                   "n"," ","e","r","r","o","r","."," ","P","l","e","a","s","e"," ","t","r","y"," ","a","g",
                                                                   "a","i","n",".">>,
                                <<"u","n","k","n","o","w","n">>, 0)>>]
    /\ pc' = [pc EXCEPT ![i] = "done"]
    /\ UNCHANGED <<chat_request, env_context, unified_tools, agent_tools, messages,
                   file_tools, outcome, beam_service, heap>>

\* Steps 10 to 13 of turn i, for a project without a sandbox
FinishOf(i) ==
    /\ pc[i] = "running"
    /\ response' = [response EXCEPT ![i] =
                       <<UnifiedChatResponse(
                            TRUE, <<"D","o","n","e">>,
                            env_context[i][1].env_type, env_context[i][1].confidence,
                            extracted_tool_calls(messages[i], TRUE)
                            \o tracked_tool_calls(RouterOf(i)),
                            updated_files(RouterOf(i), heap[chat_request[i].files]),
                            sandbox_url(RouterOf(i).enable_dapp_tools, NoSandbox),
                            None)>>]
    /\ pc' = [pc EXCEPT ![i] = "done"]
    /\ UNCHANGED <<chat_request, env_context, unified_tools, agent_tools, messages,
                   file_tools, outcome, beam_service, heap>>

NextTurns ==
    \E i \in TurnIds :
        \/ StartOf(i)
        \/ WriteFileOf(i)
        \/ ReadFileOf(i)
        \/ AgentFailsOf(i)
        \/ FinishOf(i)

SpecTurns == InitTurns /\ [][NextTurns]_vars

-----------------------------------------------------------------------------

(* api/unified_chat_stream.py: the streaming endpoint *)

\* The tools stream_unified_chat registers: the four shared ones, two
\* blueprint tools and two dApp tools
StreamBlueprintToolNames == {"validate_blueprint", "compile_blueprint"}

StreamDappToolNames == {"grep", "run_command"}

StreamRegisteredTools(enable_blueprints, enable_dapps) ==
    SharedToolNames
    \cup (IF enable_blueprints THEN StreamBlueprintToolNames ELSE {})
    \cup (IF enable_dapps THEN StreamDappToolNames ELSE {})

\* json.dumps(s) of a str of ASCII text
JsonEscape(ch) ==
    CASE ch = "\"" -> <<"\\", "\"">>
      [] ch = "\\" -> <<"\\", "\\">>
      [] ch = "\n" -> <<"\\", "n">>
      [] ch = "\t" -> <<"\\", "t">>
      [] OTHER -> <<ch>>

RECURSIVE JsonEscaped(_)
JsonEscaped(s) ==
    IF Len(s) = 0 THEN <<>> ELSE JsonEscape(Head(s)) \o JsonEscaped(Tail(s))

json_dumps(s) == <<"\"">> \o JsonEscaped(s) \o <<"\"">>

\* chunk_size = 10
chunk_size == 10

\* [text[i:i+size] for i in range(0, len(text), size)]
RECURSIVE Chunks(_, _)
Chunks(text, size) ==
    IF Len(text) = 0 THEN <<>>
    ELSE IF Len(text) <= size THEN <<text>>
    ELSE <<SubSeq(text, 1, size)>> \o Chunks(SubSeq(text, size + 1, Len(text)), size)

\* The lines of the stream: 0:<json text>, and d:{"finishReason":<reason>}
TextLine(json_text) == <<"0",":">> \o json_text \o <<"\n">>

FinishLine(reason) == <<"d",":","{","\"","f","i","n","i","s","h","R","e","a","s","o","n","\"",":","\"">> \o reason \o <<"\"", "}", "\n">>

\* get_ai_model() and Agent(model=...): the configured model, the ValueError of
\* get_ai_model, or an error of the provider's class that is no ValueError
StreamAiModels ==
    AiModels \o << Raised("UserError", <<"S","e","t"," ","t","h","e"," ","A","P","I"," ","k","e","y">>) >>

\* str(result.output) of the runs of the model
AgentOutputs == { <<>>, <<"D","o","n","e">>, <<"S","a","y"," ","\"","h","i","\"","\n","t","o"," ","i","t">> }

InitStream ==
    /\ pc = "request"
    /\ chat_request \in [message : TurnMessages, project_id : {<<"p">>},
                         files : DictsUpTo(TurnPaths, TurnContents, MaxFiles)]
    /\ env_context = None
    /\ unified_tools = None
    /\ agent_tools = {}
    /\ messages = <<>>
    /\ response = <<>>
    /\ file_tools = None
    /\ outcome = None
    /\ beam_service = None
    /\ heap = None

\* stream_unified_chat up to agent.run(): steps 1 to 3 and the registration of
\* the tools; response holds the lines yielded, outcome how the generator ended
StreamStart ==
    /\ pc = "request"
    /\ \E m \in DOMAIN StreamAiModels : LET model == StreamAiModels[m] IN
        LET files == chat_request.files
            context == detect_environment(files, chat_request.message)
            enable_blueprints == should_enable_blueprint_tools(context)
            enable_dapps == should_enable_dapp_tools(context)
        IN  /\ env_context' = <<context>>
            /\ unified_tools' = <<UnifiedTools(files, chat_request.project_id,
                                               enable_blueprints, enable_dapps)>>
            /\ IF model.raised /\ model.value.exc = "ValueError"
               THEN /\ response' = << TextLine(<<"\"">> \o model.value.msg \o <<"\"">>),
                                      FinishLine(<<"e","r","r","o","r">>) >>
                    /\ outcome' = <<"model not configured">>
                    /\ agent_tools' = {}
                    /\ pc' = "done"
               ELSE IF model.raised
               THEN /\ response' = << TextLine(json_dumps(<<"E","r","r","o","r",":"," ">> \o model.value.msg)),
                                      FinishLine(<<"e","r","r","o","r">>) >>
                    /\ outcome' = <<"setup raised">>
                    /\ agent_tools' = {}
                    /\ pc' = "done"
               ELSE /\ response' = <<>>
                    /\ outcome' = None
                    /\ agent_tools' = StreamRegisteredTools(enable_blueprints, enable_dapps)
                    /\ pc' = "running"
    /\ UNCHANGED <<chat_request, messages, file_tools, beam_service, heap>>

\* Step 7, agent.run() raising: the inner except yields the error as text and
\* the generator goes on to its finish signal
StreamAgentFails ==
    /\ pc = "running"
    /\ \E error_msg \in AgentErrors :
        response' = << TextLine(json_dumps(<<"E","r","r","o","r",":"," ">> \o error_msg)),
                       FinishLine(<<"s","t","o","p">>) >>
    /\ outcome' = <<"agent run raised">>
    /\ pc' = "done"
    /\ UNCHANGED <<chat_request, env_context, unified_tools, agent_tools, messages,
                   file_tools, beam_service, heap>>

\* Step 7, agent.run() returning: the output in chunks, then the finish signal
StreamFinish ==
    /\ pc = "running"
    /\ \E text_output \in AgentOutputs :
        LET chunks == Chunks(text_output, chunk_size)
        IN  response' = [i \in 1..Len(chunks) |-> TextLine(json_dumps(chunks[i]))]
                        \o << FinishLine(<<"s","t","o","p">>) >>
    /\ outcome' = <<"completed">>
    /\ pc' = "done"
    /\ UNCHANGED <<chat_request, env_context, unified_tools, agent_tools, messages,
                   file_tools, beam_service, heap>>

\* The functions the stream registers are those of unified_chat, line for line
NextStream ==
    \/ StreamStart
    \/ list_files
    \/ read_file
    \/ write_file
    \/ get_project_structure
    \/ validate_blueprint
    \/ compile_blueprint
    \/ grep
    \/ run_command
    \/ StreamAgentFails
    \/ StreamFinish

SpecStream == InitStream /\ [][NextStream]_vars

-----------------------------------------------------------------------------

(* api/beam_service.py: the paths of upload_files and download_files *)

\* upload_files: the path a file of the project is written to in the sandbox
UploadedPath(sandbox_path) ==
    IF StartsWith(sandbox_path, <<"/","d","a","p","p","/">>)
    THEN Replace(sandbox_path, <<"/","d","a","p","p","/">>, DEFAULT_CODE_PATH \o <<"/">>)
    ELSE IF ~StartsWith(sandbox_path, DEFAULT_CODE_PATH)
    THEN DEFAULT_CODE_PATH \o sandbox_path
    ELSE sandbox_path

\* download_files: the files of node_modules and .next are left in the sandbox
SkippedOnDownload(sandbox_file_path) ==
    \/ Contains(sandbox_file_path, <<"n","o","d","e","_","m","o","d","u","l","e","s">>)
    \/ Contains(sandbox_file_path, <<"/",".","n","e","x","t","/">>)

\* download_files: the path a file of the sandbox is handed back under
FrontendPath(sandbox_file_path) ==
    Replace(sandbox_file_path, DEFAULT_CODE_PATH \o <<"/">>, <<"/","d","a","p","p","/">>)

\* the most segments of a path of the model below its root
MaxSegments == 3

RemapRoots == { <<"/","d","a","p","p","/">>, <<"/","l","i","b","/">> }
RemapSegments == { <<"a","p","p">>, <<"d","a","p","p">>, <<"s","r","c">>, <<"a">> }

\* the paths of the model: a root and one to MaxSegments segments
VirtualPaths ==
    { root \o Join(<<"/">>, segments) :
        root \in RemapRoots,
        segments \in UNION { [1..n -> RemapSegments] : n \in 1..MaxSegments } }

\* a project of one file; file_tools.files is what the frontend holds, outcome
\* the files of the sandbox, response what download_files returns
InitRemap ==
    /\ pc = "frontend"
    /\ \E p \in VirtualPaths : file_tools = << <<p, <<"A">>>> >>
    /\ chat_request = None
    /\ env_context = None
    /\ unified_tools = None
    /\ agent_tools = {}
    /\ messages = <<>>
    /\ response = None
    /\ outcome = None
    /\ beam_service = None
    /\ heap = None

\* upload_files(project_id, files): every file is written under its sandbox path
UploadPaths ==
    /\ pc = "frontend"
    /\ outcome' = Update(<<>>, [i \in 1..Len(file_tools) |->
                                   <<UploadedPath(file_tools[i][1]), file_tools[i][2]>>])
    /\ pc' = "sandbox"
    /\ UNCHANGED <<chat_request, env_context, unified_tools, agent_tools, messages, response,
                   file_tools, beam_service, heap>>

\* download_files(project_id): the files found under /app, but for the skipped
\* ones, under their frontend paths
DownloadPaths ==
    /\ pc = "sandbox"
    /\ LET kept == SelectSeq(outcome, LAMBDA e :
                       StartsWith(e[1], DEFAULT_CODE_PATH) /\ ~SkippedOnDownload(e[1]))
       IN  response' = <<Update(<<>>, [i \in 1..Len(kept) |->
                                          <<FrontendPath(kept[i][1]), kept[i][2]>>])>>
    /\ pc' = "frontend again"
    /\ UNCHANGED <<chat_request, env_context, unified_tools, agent_tools, messages,
                   file_tools, outcome, beam_service, heap>>

NextRemap == UploadPaths \/ DownloadPaths

SpecRemap == InitRemap /\ [][NextRemap]_vars

-----------------------------------------------------------------------------

(* Two turns in a row on a project that starts empty *)

\* the messages of the second turn: no keyword, a blueprint one, a dApp one
NextMessages == { <<"f","i","x"," ","i","t">>, <<"C","o","m","p","i","l","e"," ","c","t","x">>, <<"d","A","p","p"," ","p","a","g","e">> }

InitNextTurn ==
    /\ pc = "request"
    /\ chat_request \in [message : TurnMessages, project_id : {<<"p">>}, files : {<<>>}]
    /\ env_context = None
    /\ unified_tools = None
    /\ agent_tools = {}
    /\ messages = <<>>
    /\ response = None
    /\ file_tools = None
    /\ outcome = None
    /\ beam_service = None
    /\ heap = None

\* The caller takes the updated files of the response into the files of the
\* project and sends them with the next message; outcome tells the turns apart
NextTurn ==
    /\ pc = "done"
    /\ outcome = None
    /\ response # None /\ response[1].success
    /\ \E next_message \in NextMessages :
        chat_request' = [chat_request EXCEPT
                            !.message = next_message,
                            !.files = Update(@, response[1].updated_files)]
    /\ outcome' = <<"next turn">>
    /\ pc' = "request"
    /\ env_context' = None
    /\ unified_tools' = None
    /\ agent_tools' = {}
    /\ messages' = <<>>
    /\ response' = None
    /\ UNCHANGED <<file_tools, beam_service, heap>>

NextNextTurn ==
    \/ Start
    \/ write_file
    \/ AgentFails
    \/ Finish
    \/ NextTurn

SpecNextTurn == InitNextTurn /\ [][NextNextTurn]_vars

-----------------------------------------------------------------------------
(* middleware/rate_limit.py: the request limiter and the token tracker *)

\* The settings of the process: RATE_LIMIT_IP_REQUESTS, RATE_LIMIT_WINDOW,
\* RATE_LIMIT_IP_TOKENS and RATE_LIMIT_GLOBAL_TOKENS of the environment, in
\* the sizes of the model
RATE_LIMIT_IP_REQUESTS == 2

RATE_LIMIT_WINDOW == 2

RATE_LIMIT_IP_TOKENS == 40

RATE_LIMIT_GLOBAL_TOKENS == 60

\* the last time.time() of the model, in seconds
MaxTime == 3

ClientIps == { <<"a">>, <<"b">> }

\* SimpleRateLimiter.__init__
SimpleRateLimiter == [requests |-> <<>>]

\* check_rate_limit recording the request it rejects as well
SimpleRateLimiter_check_rate_limit_recording(self, ip, now) ==
    LET had == IF HasKey(self.requests, ip) THEN Get(self.requests, ip) ELSE <<>>
        kept == SelectSeq(had, LAMBDA timestamp : now - timestamp < RATE_LIMIT_WINDOW)
    IN  Return([self EXCEPT !.requests = Put(@, ip, Append(kept, now))],
               Len(kept) < RATE_LIMIT_IP_REQUESTS)

\* check_rate_limit(ip) at the time now
SimpleRateLimiter_check_rate_limit(self, ip, now) ==
    LET had == IF HasKey(self.requests, ip) THEN Get(self.requests, ip) ELSE <<>>
        kept == SelectSeq(had, LAMBDA timestamp : now - timestamp < RATE_LIMIT_WINDOW)
    IN  IF Len(kept) >= RATE_LIMIT_IP_REQUESTS
        THEN Return([self EXCEPT !.requests = Put(@, ip, kept)], FALSE)
        ELSE Return([self EXCEPT !.requests = Put(@, ip, Append(kept, now))], TRUE)

\* int(time.time() // self.window)
Bucket(now) == now \div RATE_LIMIT_WINDOW

\* f"tokens:ip:{ip}:{current_bucket}" and f"tokens:global:{current_bucket}"
IpKey(ip, current_bucket) == <<"tokens:ip", ip, current_bucket>>

GlobalKey(current_bucket) == <<"tokens:global", current_bucket>>

RedisKeys ==
    { IpKey(ip, b) : ip \in ClientIps, b \in 0..Bucket(MaxTime) }
    \cup { GlobalKey(b) : b \in 0..Bucket(MaxTime) }

\* Redis with no key
EmptyRedis == [key \in RedisKeys |-> None]

\* redis.get(key) or 0: the count of a key that is there and has not expired
redis_get(redis, key, now) ==
    IF redis[key] # None /\ now < redis[key][1].expires_at THEN redis[key][1].value ELSE 0

\* redis.incrby(key, tokens) followed by redis.expire(key, self.window)
redis_incrby(redis, key, tokens, now) ==
    [redis EXCEPT ![key] = <<[value |-> redis_get(redis, key, now) + tokens,
                              expires_at |-> now + RATE_LIMIT_WINDOW]>>]

\* max(len(text) // 4, 10)
estimate_tokens(text) == IF Len(text) \div 4 > 10 THEN Len(text) \div 4 ELSE 10

\* token_limit_middleware: the tokens estimated for a request; int(x * 1.5)
\* of a natural number is 3x // 2
EstimatedTokens(request) ==
    IF request.method # "POST" \/ request.body = None THEN 0
    ELSE IF ~request.body[1].json THEN 100
    ELSE IF ~HasKey(request.body[1].data, "message") THEN 0
    ELSE LET data == request.body[1].data
             message_tokens == estimate_tokens(Get(data, "message"))
             content_tokens ==
                IF HasKey(data, "current_file_content")
                   /\ Get(data, "current_file_content") # <<>>
                THEN estimate_tokens(Get(data, "current_file_content"))
                ELSE 0
         IN  (3 * (message_tokens + content_tokens)) \div 2

\* chat_with_assistant: the adjustment it records after the run of the agent,
\* or 0; usage is the total_tokens the provider reports, if it reports any
Adjustment(request) ==
    IF request.usage = None \/ request.body = None \/ ~request.body[1].json THEN 0
    ELSE LET conversation_context == <<"u","s","e","r",":"," ">> \o Get(request.body[1].data, "message")
             total_tokens == request.usage[1]
             estimated_tokens == Len(conversation_context) \div 4 + 100
             adjustment == total_tokens - estimated_tokens
         IN  IF adjustment > 50 \/ adjustment < -50 THEN adjustment ELSE 0

-----------------------------------------------------------------------------
(* Requests to /api/ai/ that the process serves at the same time *)

RequestIds == {1, 2}

\* what the requests of the model carry
RequestBodies ==
    { None,
      <<[json |-> FALSE, data |-> <<>>]>>,
      <<[json |-> TRUE, data |-> << <<"message", <<"h","i">>>> >>]>>,
      <<[json |-> TRUE,
         data |-> << <<"message", <<"h","i">>>>, <<"current_file_content", <<"x"," ","="," ","1">>>> >>]>> }

\* total_tokens of the usage of the run: none, near the estimate, far above it
Usages == { None, <<120>>, <<400>> }

AiRequests ==
    { request \in [client_ip : ClientIps, method : {"GET", "POST"}, body : RequestBodies,
                   usage : Usages] :
        /\ request.method = "GET" <=> request.body = None
        /\ request.usage # None => (request.body # None /\ request.body[1].json) }

\* heap holds what the requests share: the clock, the limiter of the process,
\* and Redis (None when REDIS_ENABLED is false); env_context the
\* current_bucket of the call of the tracker a request is in
InitTokens ==
    /\ chat_request \in { requests \in [RequestIds -> AiRequests] :
                            requests[1].client_ip = <<"a">> }
    /\ pc = [r \in RequestIds |-> "arrived"]
    /\ env_context = [r \in RequestIds |-> None]
    /\ response = [r \in RequestIds |-> None]
    /\ \E redis \in { None, <<EmptyRedis>> } :
        heap = [now |-> 0, simple_rate_limiter |-> SimpleRateLimiter, redis |-> redis]
    /\ unified_tools = None
    /\ agent_tools = {}
    /\ messages = <<>>
    /\ file_tools = None
    /\ outcome = None
    /\ beam_service = None

\* the request is answered with the status
Answer(r, status) ==
    /\ response' = [response EXCEPT ![r] = <<status>>]
    /\ pc' = [pc EXCEPT ![r] = "done"]

\* token_limit_middleware up to its first await on Redis: the request limit
\* and the estimate
Arrive(r) ==
    /\ pc[r] = "arrived"
    /\ LET request == chat_request[r]
           checked == SimpleRateLimiter_check_rate_limit(heap.simple_rate_limiter,
                                                         request.client_ip, heap.now)
       IN  /\ heap' = [heap EXCEPT !.simple_rate_limiter = checked.self]
           /\ IF ~checked.value
              THEN Answer(r, 429)
              ELSE /\ pc' = [pc EXCEPT ![r] =
                                IF EstimatedTokens(request) > 0 /\ heap.redis # None
                                THEN "check_ip" ELSE "call_next"]
                   /\ UNCHANGED response
    /\ UNCHANGED <<chat_request, env_context, unified_tools, agent_tools, messages,
                   file_tools, outcome, beam_service>>

\* check_token_limits up to its second await: the tokens of the IP
CheckIp(r) ==
    /\ pc[r] = "check_ip"
    /\ LET request == chat_request[r]
           current_bucket == Bucket(heap.now)
           ip_tokens == redis_get(heap.redis[1], IpKey(request.client_ip, current_bucket),
                                  heap.now)
       IN  IF ip_tokens + EstimatedTokens(request) > RATE_LIMIT_IP_TOKENS
           THEN Answer(r, 429) /\ UNCHANGED env_context
           ELSE /\ pc' = [pc EXCEPT ![r] = "check_global"]
                /\ env_context' = [env_context EXCEPT ![r] = <<current_bucket>>]
                /\ UNCHANGED response
    /\ UNCHANGED <<chat_request, unified_tools, agent_tools, messages, file_tools, outcome,
                   beam_service, heap>>

\* check_token_limits from its second await: the tokens of all
CheckGlobal(r) ==
    /\ pc[r] = "check_global"
    /\ LET request == chat_request[r]
           global_tokens == redis_get(heap.redis[1], GlobalKey(env_context[r][1]), heap.now)
       IN  IF global_tokens + EstimatedTokens(request) > RATE_LIMIT_GLOBAL_TOKENS
           THEN Answer(r, 429)
           ELSE pc' = [pc EXCEPT ![r] = "consume_ip"] /\ UNCHANGED response
    /\ env_context' = [env_context EXCEPT ![r] = None]
    /\ UNCHANGED <<chat_request, unified_tools, agent_tools, messages, file_tools, outcome,
                   beam_service, heap>>

\* consume_tokens(ip, tokens) up to the await on the key of all
TokensOfIpConsumed(r, tokens, next) ==
    /\ LET current_bucket == Bucket(heap.now)
       IN  /\ heap' = [heap EXCEPT !.redis =
                          <<redis_incrby(@[1], IpKey(chat_request[r].client_ip, current_bucket),
                                         tokens, heap.now)>>]
           /\ env_context' = [env_context EXCEPT ![r] = <<current_bucket>>]
    /\ pc' = [pc EXCEPT ![r] = next]
    /\ UNCHANGED <<chat_request, unified_tools, agent_tools, messages, response, file_tools,
                   outcome, beam_service>>

\* consume_tokens(ip, tokens) from the await on the key of all
TokensOfAllConsumed(r, tokens) ==
    /\ heap' = [heap EXCEPT !.redis =
                   <<redis_incrby(@[1], GlobalKey(env_context[r][1]), tokens, heap.now)>>]
    /\ env_context' = [env_context EXCEPT ![r] = None]
    /\ UNCHANGED <<chat_request, unified_tools, agent_tools, messages, file_tools, outcome,
                   beam_service>>

\* token_limit_middleware: the estimated tokens are consumed before the request
\* is processed
ConsumeIp(r) ==
    /\ pc[r] = "consume_ip"
    /\ TokensOfIpConsumed(r, EstimatedTokens(chat_request[r]), "consume_global")

ConsumeGlobal(r) ==
    /\ pc[r] = "consume_global"
    /\ TokensOfAllConsumed(r, EstimatedTokens(chat_request[r]))
    /\ pc' = [pc EXCEPT ![r] = "call_next"]
    /\ UNCHANGED response

\* call_next(request): chat_with_assistant runs the agent
CallNext(r) ==
    /\ pc[r] = "call_next"
    /\ IF Adjustment(chat_request[r]) # 0 /\ heap.redis # None
       THEN pc' = [pc EXCEPT ![r] = "adjust_ip"] /\ UNCHANGED response
       ELSE Answer(r, 200)
    /\ UNCHANGED <<chat_request, env_context, unified_tools, agent_tools, messages,
                   file_tools, outcome, beam_service, heap>>

\* chat_with_assistant: the adjustment is consumed
AdjustIp(r) ==
    /\ pc[r] = "adjust_ip"
    /\ TokensOfIpConsumed(r, Adjustment(chat_request[r]), "adjust_global")

AdjustGlobal(r) ==
    /\ pc[r] = "adjust_global"
    /\ TokensOfAllConsumed(r, Adjustment(chat_request[r]))
    /\ Answer(r, 200)

\* time passes
Tick ==
    /\ heap.now < MaxTime
    /\ heap' = [heap EXCEPT !.now = @ + 1]
    /\ UNCHANGED <<pc, chat_request, env_context, unified_tools, agent_tools, messages,
                   response, file_tools, outcome, beam_service>>

NextTokens ==
    \/ \E r \in RequestIds : Arrive(r)
    \/ \E r \in RequestIds : CheckIp(r)
    \/ \E r \in RequestIds : CheckGlobal(r)
    \/ \E r \in RequestIds : ConsumeIp(r)
    \/ \E r \in RequestIds : ConsumeGlobal(r)
    \/ \E r \in RequestIds : CallNext(r)
    \/ \E r \in RequestIds : AdjustIp(r)
    \/ \E r \in RequestIds : AdjustGlobal(r)
    \/ Tick

SpecTokens == InitTokens /\ [][NextTokens]_vars

-----------------------------------------------------------------------------

(* middleware/rate_limit.py: the request limit of an IP, call after call *)

\* the calls of check_rate_limit of a run
MaxChecks == 5

\* the limiter as the module creates it, the clock at 0; messages holds the
\* calls made, each with its IP, its time and what it returned
InitRequests ==
    /\ pc = "serving"
    /\ heap = [now |-> 0, simple_rate_limiter |-> SimpleRateLimiter, redis |-> None]
    /\ messages = <<>>
    /\ response = None
    /\ chat_request = None
    /\ env_context = None
    /\ unified_tools = None
    /\ agent_tools = {}
    /\ file_tools = None
    /\ outcome = None
    /\ beam_service = None

\* token_limit_middleware calling check_rate_limit(client_ip): status 429 when
\* it returns False
check_rate_limit(ip) ==
    /\ pc = "serving"
    /\ Len(messages) < MaxChecks
    /\ LET checked == SimpleRateLimiter_check_rate_limit(heap.simple_rate_limiter, ip,
                                                         heap.now)
       IN  /\ heap' = [heap EXCEPT !.simple_rate_limiter = checked.self]
           /\ messages' = Append(messages, [ip |-> ip, now |-> heap.now,
                                            admitted |-> checked.value])
           /\ response' = IF checked.value THEN None ELSE <<429>>
    /\ UNCHANGED <<pc, chat_request, env_context, unified_tools, agent_tools, file_tools,
                   outcome, beam_service>>

NextRequests ==
    \/ \E ip \in ClientIps : check_rate_limit(ip)
    \/ Tick

SpecRequests == InitRequests /\ [][NextRequests]_vars

-----------------------------------------------------------------------------

(* Properties of the detector, checked under SpecDetect *)

\* the verdict of a request whose environment was detected
Detected == pc = "detected"

\* some path of files starts with one of the prefixes
SomePathUnder(files, prefixes) ==
    \E i \in 1..Len(files) : \E prefix \in prefixes : StartsWith(files[i][1], prefix)

\* some path of files starts with one of the prefixes and ends in .py
SomePythonPathUnder(files, prefixes) ==
    \E i \in 1..Len(files) : \E prefix \in prefixes :
        StartsWith(files[i][1], prefix) /\ EndsWith(files[i][1], <<".","p","y">>)

\* the three blueprint roots of the directory rule, and the dApp root
BlueprintRoots == { <<"/","b","l","u","e","p","r","i","n","t","s","/">>, <<"/","c","o","n","t","r","a","c","t","s","/">>, <<"/","t","e","s","t","s","/">> }
DetectedBlueprintRoots == { <<"/","b","l","u","e","p","r","i","n","t","s","/">>, <<"/","c","o","n","t","r","a","c","t","s","/">> }
DappRoot == { <<"/","d","a","p","p","/">> }

IsVerdict(kind, confidence) ==
    env_context[1].env_type = kind /\ env_context[1].confidence = confidence

\* C5 as stated: a file set with a path under /blueprints/, /contracts/ or
\* /tests/ and no path under /dapp/ is BLUEPRINT at 0.95.  Not so for a set
\* whose only such paths are under /tests/ or lack the .py suffix.
C5_AnyPathUnderABlueprintRoot ==
    (Detected /\ SomePathUnder(chat_request.files, BlueprintRoots)
              /\ ~SomePathUnder(chat_request.files, DappRoot))
        => IsVerdict(BLUEPRINT, 95)

\* C5 amended: with no path under /dapp/, the verdict is BLUEPRINT at 0.95
\* exactly when some path under /blueprints/ or /contracts/ ends in .py,
\* whatever the contents and the message are.
C5_BlueprintByPath ==
    (Detected /\ ~SomePathUnder(chat_request.files, DappRoot))
        => (IsVerdict(BLUEPRINT, 95)
                <=> SomePythonPathUnder(chat_request.files, DetectedBlueprintRoots))

\* C5's case: a blueprint under /contracts/ only, dApp content, a dApp message
C5_Witness ==
    /\ Detected
    /\ Keys(chat_request.files) = << <<"/","c","o","n","t","r","a","c","t","s","/","c",".","p","y">> >>
    /\ chat_request.files[1][2] = <<"u","s","e"," ","c","l","i","e","n","t">>
    /\ chat_request.message = <<"d","A","p","p"," ","p","a","g","e">>
    /\ IsVerdict(BLUEPRINT, 95)

\* C6 as stated: a file set with paths under a blueprint root (/blueprints/,
\* /contracts/ or /tests/) and under /dapp/ is MIXED at 0.95.  Not so when the
\* only paths under the blueprint roots are under /tests/ or lack the .py suffix.
C6_AnyPathsUnderBothRoots ==
    (Detected /\ SomePathUnder(chat_request.files, BlueprintRoots)
              /\ SomePathUnder(chat_request.files, DappRoot))
        => IsVerdict(MIXED, 95)

\* C6 amended: with a path under /dapp/, the verdict is MIXED at 0.95 exactly
\* when some path under /blueprints/ or /contracts/ ends in .py (and DAPP at
\* 0.95 otherwise), however many paths fall under each root.
C6_MixedByPath ==
    (Detected /\ SomePathUnder(chat_request.files, DappRoot))
        => IF SomePythonPathUnder(chat_request.files, DetectedBlueprintRoots)
           THEN IsVerdict(MIXED, 95)
           ELSE IsVerdict(DAPP, 95)

\* C6's case: two blueprints and one dApp file
C6_Witness ==
    /\ Detected
    /\ Len(env_context[1].blueprint_files) = 2
    /\ Len(env_context[1].dapp_files) = 1
    /\ IsVerdict(MIXED, 95)

\* C7: the empty file set is EMPTY at 0.95 for every message, whatever
\* keywords the message holds.
C7_EmptyFileSet ==
    (Detected /\ Len(chat_request.files) = 0) => IsVerdict(EMPTY, 95)

\* C7's case: no files and a message with blueprint keywords
C7_Witness ==
    /\ Detected
    /\ Len(chat_request.files) = 0
    /\ chat_request.message = <<"C","o","m","p","i","l","e"," ","c","t","x">>
    /\ MessageIntent(chat_request.message) # None
    /\ IsVerdict(EMPTY, 95)

-----------------------------------------------------------------------------
(* Properties of a turn, checked under Spec *)

\* the router of the turn and its two stores
Router == unified_tools[1]
ProjectFiles(tools) == tools.project_files
FileToolsFiles(tools) == IF tools.file_tools # None THEN tools.file_tools[1].files ELSE <<>>

\* the live store of the turn: what was written last at each path
LiveStore(tools) == Update(ProjectFiles(tools), FileToolsFiles(tools))

\* the last tool call of the run: what the agent asked for, what it got
Called == Len(messages) > 0
LastCall == messages[Len(messages) - 1]
LastReturn == messages[Len(messages)]

UnderDapp(path) == StartsWith(path, <<"/","d","a","p","p","/">>)
UnderBlueprintRoots(path) == \E prefix \in BlueprintRoots : StartsWith(path, prefix)

\* the path with its leading slash
Normalized(path) == IF Len(path) > 0 /\ path[1] = "/" THEN path ELSE <<"/">> \o path

\* the write is legal under the enabled roots
WriteAllowed(tools, path) ==
    \/ UnderDapp(path) /\ tools.enable_dapp_tools
    \/ UnderBlueprintRoots(path) /\ tools.enable_blueprint_tools

\* a result that reports a rejection: it opens with one of the two cross marks
IsRejection(result) ==
    StartsWith(result, CrossMark) \/ StartsWith(result, <<"U+274C">>)

\* C1 as stated: after a write_file(p, c) that succeeded on a legal path, the
\* next read_file(p) of the same router returns exactly c.  Not so for a path
\* under /dapp/: the write goes to file_tools.files and the read looks in
\* project_files.
C1_WriteThenRead ==
    (/\ pc = "running"
     /\ Called
     /\ LastCall.tool_name = "write_file"
     /\ WriteAllowed(Router, Normalized(Get(LastCall.args, "path")))
     /\ ~IsRejection(LastReturn.content))
        => UnifiedTools_read_file(Router, Get(LastCall.args, "path")).value
               = Get(LastCall.args, "content")

\* C2: the updated files of a successful response are exactly the entries of
\* the live store that are new or differ from the files of the request.
C2_UpdatedFilesExact ==
    (pc = "done" /\ response[1].success)
        => AsMap(response[1].updated_files)
               = {e \in AsMap(LiveStore(Router)) :
                     \/ ~HasKey(chat_request.files, e[1])
                     \/ Get(chat_request.files, e[1]) # e[2]}

\* C2's case: /dapp/a is changed and then written back to what the request
\* held, and the delta is empty
C2_Witness ==
    /\ pc = "done"
    /\ response[1].success
    /\ HasKey(chat_request.files, <<"/","d","a","p","p","/","a">>)
    /\ Len(messages) = 4
    /\ messages[1].tool_name = "write_file" /\ messages[3].tool_name = "write_file"
    /\ messages[1].args = << <<"path", <<"/","d","a","p","p","/","a">>>>, <<"content", <<"B">>>> >>
    /\ messages[3].args = << <<"path", <<"/","d","a","p","p","/","a">>>>, <<"content", <<"A">>>> >>
    /\ response[1].updated_files = <<>>

\* C3: a write_file on a path outside /dapp/, /blueprints/, /contracts/ and
\* /tests/ returns a string that names the four prefixes, raises nothing and
\* leaves both stores of the turn as they were.
C3_WriteOutsideRootsRejected ==
    [][(/\ pc = "running" /\ pc' = "running"
        /\ messages' # messages
        /\ messages'[Len(messages') - 1].tool_name = "write_file"
        /\ ~UnderDapp(Normalized(Get(messages'[Len(messages') - 1].args, "path")))
        /\ ~UnderBlueprintRoots(Normalized(Get(messages'[Len(messages') - 1].args, "path"))))
          => LET call == messages'[Len(messages') - 1]
                 result == messages'[Len(messages')].content
             IN  /\ ~UnifiedTools_write_file(Router, Get(call.args, "path"),
                                             Get(call.args, "content")).raised
                 /\ IsRejection(result)
                 /\ \A prefix \in BlueprintRoots \cup DappRoot : Contains(result, prefix)
                 /\ ProjectFiles(unified_tools'[1]) = ProjectFiles(Router)
                 /\ unified_tools'[1].file_tools = Router.file_tools]_vars

\* C3's case: a write to x/a was rejected in a turn that holds files
C3_Witness ==
    /\ pc = "running"
    /\ Called
    /\ LastCall.tool_name = "write_file"
    /\ Get(LastCall.args, "path") = <<"x","/","a">>
    /\ Contains(LastReturn.content, <<"I","n","v","a","l","i","d"," ","p","a","t","h",":"," ","/","x","/","a">>)
    /\ Len(ProjectFiles(Router)) = 2

\* C4: a write_file is accepted, and the content stored at the path, exactly
\* when the path is under /dapp/ with the dApp tools enabled or under
\* /blueprints/, /contracts/ or /tests/ with the blueprint tools enabled;
\* otherwise the result is a rejection string and no store changes.
C4_WriteAcceptedIffEnabled ==
    [][(/\ pc = "running" /\ pc' = "running"
        /\ messages' # messages
        /\ messages'[Len(messages') - 1].tool_name = "write_file")
          => LET call == messages'[Len(messages') - 1]
                 result == messages'[Len(messages')].content
                 path == Normalized(Get(call.args, "path"))
                 after == unified_tools'[1]
             IN  IF WriteAllowed(Router, path)
                 THEN /\ ~IsRejection(result)
                      /\ HasKey(LiveStore(after), path)
                      /\ Get(LiveStore(after), path) = Get(call.args, "content")
                 ELSE /\ IsRejection(result)
                      /\ ProjectFiles(after) = ProjectFiles(Router)
                      /\ after.file_tools = Router.file_tools]_vars

\* C4's case: in a BLUEPRINT turn a write under /dapp/ was rejected, after a
\* write under /tests/ was accepted
C4_Witness ==
    /\ pc = "running"
    /\ env_context[1].env_type = BLUEPRINT
    /\ Len(messages) = 4
    /\ messages[1].tool_name = "write_file"
    /\ Get(messages[1].args, "path") = <<"t","e","s","t","s","/","a">>
    /\ HasKey(ProjectFiles(Router), <<"/","t","e","s","t","s","/","a">>)
    /\ LastCall.tool_name = "write_file"
    /\ Get(LastCall.args, "path") = <<"/","d","a","p","p","/","a">>
    /\ IsRejection(LastReturn.content)
    /\ ~HasKey(LiveStore(Router), <<"/","d","a","p","p","/","a">>)

\* C8: the tools registered on the agent are the four shared tools, the four
\* blueprint tools exactly when the kind is BLUEPRINT, MIXED or EMPTY, and the
\* six dApp tools exactly when the kind is DAPP, MIXED or EMPTY; one of the
\* two conditional sets is always there, and only a registered tool is called.
C8_ToolsByKind ==
    (pc = "running")
        => LET kind == env_context[1].env_type
           IN  /\ kind \in {"blueprint", "dapp", "mixed", "empty"}
               /\ agent_tools =
                    {"list_files", "read_file", "write_file", "get_project_structure"}
                    \cup (IF kind \in {"blueprint", "mixed", "empty"}
                          THEN {"validate_blueprint", "compile_blueprint",
                                "run_blueprint_tests", "list_blueprint_methods"}
                          ELSE {})
                    \cup (IF kind \in {"dapp", "mixed", "empty"}
                          THEN {"grep", "run_command", "get_sandbox_logs",
                                "restart_dev_server", "bootstrap_nextjs_project",
                                "download_sandbox_files"}
                          ELSE {})
               /\ "validate_blueprint" \in agent_tools \/ "grep" \in agent_tools
               /\ \A i \in 1..Len(messages) : messages[i].tool_name \in agent_tools

\* C8's case: a DAPP turn in which a dApp tool was called and no blueprint
\* tool is registered
C8_Witness ==
    /\ pc = "running"
    /\ env_context[1].env_type = DAPP
    /\ "validate_blueprint" \notin agent_tools
    /\ Called
    /\ LastCall.tool_name = "grep"

\* two records of the log are the same record
SameRecord(a, b) == a.tool = b.tool /\ a.args = b.args /\ a.result = b.result

\* C9: every step keeps the records of the log as they are; a step in which
\* the agent calls a tool appends exactly one record, the tool's name being
\* that of the call, and every other step appends none.
C9_LogAppendOnly ==
    [][unified_tools # None
          => LET before == Router.tool_calls
                 after == unified_tools'[1].tool_calls
             IN  /\ Len(after) >= Len(before)
                 /\ \A i \in 1..Len(before) : SameRecord(after[i], before[i])
                 /\ IF messages' # messages
                    THEN /\ Len(messages') = Len(messages) + 2
                         /\ Len(after) = Len(before) + 1
                         /\ after[Len(after)].tool = messages'[Len(messages') - 1].tool_name
                         /\ Len(after) * 2 = Len(messages')
                    ELSE Len(after) = Len(before)]_vars

\* C9's case: a call that was refused and then a call that succeeded, both in
\* the log, in that order
C9_Witness ==
    /\ pc = "running"
    /\ Len(Router.tool_calls) = 2
    /\ Router.tool_calls[1].tool = "write_file"
    /\ IsRejection(Router.tool_calls[1].result)
    /\ Router.tool_calls[2].tool = "write_file"
    /\ ~IsRejection(Router.tool_calls[2].result)
    /\ messages[1].tool_name = "write_file"
    /\ IsRejection(messages[2].content)

-----------------------------------------------------------------------------
(* Properties of FileTools, checked under SpecFiles *)

\* the last call deleted a file
Deleted == outcome # None /\ outcome[1].op = "delete_file" /\ ~outcome[1].raised

\* the stored paths whose basename is that of path, ignoring case
SameBasename(files, path) ==
    {i \in 1..Len(files) : Lower(Basename(files[i][1])) = Lower(Basename(path))}

\* C10 as stated: after delete_file(p) succeeded, read_file(p) fails with
\* FileNotFoundError and so does a second delete_file(p), for every store.
\* Not so for a store that holds another file with the basename of p.
C10_DeleteThenReadFails ==
    Deleted
        => /\ FileTools_read_file(file_tools[1], outcome[1].path).raised
           /\ FileTools_delete_file(file_tools[1], outcome[1].path).raised

\* C10 amended: after delete_file(p) succeeded, p is gone from the store and
\* a second delete_file(p) fails with FileNotFoundError and changes nothing;
\* read_file(p) fails with FileNotFoundError exactly when no stored path has
\* the basename of p, ignoring case, and returns the content of the first such
\* path behind a warning otherwise.
C10_DeleteThenRead ==
    Deleted
        => LET self == file_tools[1]
               path == outcome[1].path
               read == FileTools_read_file(self, path)
               again == FileTools_delete_file(self, path)
               same == SameBasename(self.files, path)
           IN  /\ ~HasKey(self.files, path)
               /\ again.raised /\ again.value.exc = "FileNotFoundError"
               /\ again.self = self
               /\ read.raised <=> same = {}
               /\ read.raised => read.value.exc = "FileNotFoundError"
               /\ ~read.raised =>
                    LET first == CHOOSE i \in same : \A j \in same : i <= j
                    IN  /\ StartsWith(read.value, <<"U+26A0","U+FE0F"," ","N","O","T","E",":"," ","F","i","l","e"," ","f","o","u","n","d"," ","a","t",
                                                    " ","'">>)
                        /\ EndsWith(read.value, <<"\n","\n">> \o self.files[first][2])
                        /\ self.files[first][1] # path

\* C10's case: /dapp/a was deleted from a store that holds /dapp/x/A, and a
\* read of /dapp/a returns content
C10_Witness ==
    /\ Deleted
    /\ outcome[1].path = <<"/","d","a","p","p","/","a">>
    /\ HasKey(file_tools[1].files, <<"/","d","a","p","p","/","x","/","A">>)
    /\ ~FileTools_read_file(file_tools[1], <<"/","d","a","p","p","/","a">>).raised

-----------------------------------------------------------------------------
(* Properties of the blueprint tools, checked under SpecBlueprints *)

\* the last call of the instance was op
BlueprintOutcome(op) == outcome # None /\ outcome[1].op = op

\* the source stored at the path of the last call
StoredSource == Get(unified_tools[1].project_files, outcome[1].path)

\* the texts validate_blueprint and compile_blueprint answer with
IsPassConfirmation(text) == EndsWith(text, <<" ","p","a","s","s","e","d"," ","v","a","l","i","d","a","t","i","o","n","!"," ","R","e",
                                             "a","d","y"," ","f","o","r"," ","c","o","m","p","i","l","a","t","i","o","n",".">>)
IsReadyConfirmation(text) == Contains(text, <<" ","B","l","u","e","p","r","i","n","t"," ","r","e","a","d","y"," ","f","o","r"," ","c",
                                              "o","m","p","i","l","a","t","i","o","n",":"," ">>)
IsCannotCompile(text) == StartsWith(text, <<"C","a","n","n","o","t"," ","c","o","m","p","i","l","e"," ","d","u","e"," ","t","o"," ",
                                            "v","a","l","i","d","a","t","i","o","n"," ","e","r","r","o","r","s",":">>)

\* C11 (as stated): compile_blueprint answers that the blueprint is ready for
\* compilation only when validate_blueprint of the same path flags no issue at
\* all, and answers with the validation report under the "cannot compile"
\* framing whenever validation flags any issue, a warning included.
C11_ReadyOnlyWithoutIssues ==
    BlueprintOutcome("compile_blueprint")
        => LET validation_result ==
                   UnifiedTools_validate_blueprint(unified_tools[1], outcome[1].path).value
           IN  /\ IsReadyConfirmation(outcome[1].value) => IsPassConfirmation(validation_result)
               /\ ~IsPassConfirmation(validation_result)
                      => /\ IsCannotCompile(outcome[1].value)
                         /\ Contains(outcome[1].value, validation_result)

\* the number of places of text where sub starts
Occurrences(text, sub) ==
    Cardinality({i \in 1..Len(text) :
                    i + Len(sub) - 1 <= Len(text) /\ SubSeq(text, i, i + Len(sub) - 1) = sub})

\* the line, taken without its indentation, is self.<name> = <literal>: what
\* stands before its first equals sign is self. and a name, what stands after
\* it starts with the literal
AssignsContainer(line, literal) ==
    LET text == Strip(line)
    IN  /\ StartsWith(text, <<"s","e","l","f",".">>)
        /\ \E k \in 1..Len(text) :
              /\ text[k] = "=" /\ \A j \in 1..(k - 1) : text[j] # "="
              /\ LET name == SubSeq(text, Len(<<"s","e","l","f",".">>) + 1, k - 1)
                     value == Strip(SubSeq(text, k + 1, Len(text)))
                 IN  /\ Strip(name) # <<>>
                     /\ \A i \in 1..Len(name) :
                           name[i] \in WordChars
                           \/ (name[i] \in Whitespace
                               /\ \A j \in i..Len(name) : name[j] \in Whitespace)
                     /\ StartsWith(value, literal)

\* the container kinds a source assigns to a field on some line that is no comment
AssignedKinds(code) ==
    {k \in 1..Len(CONTAINER_PATTERNS) :
        \E line \in Range(Split(code, "\n")) :
            ~StartsWith(Strip(line), <<"#">>) /\ AssignsContainer(line, CONTAINER_PATTERNS[k])}

CriticalIssue == <<"C","R","I","T","I","C","A","L",":"," ","C","o","n","t","a","i","n","e","r"," ","f","i",
                   "e","l","d"," ","a","s","s","i","g","n","m","e","n","t"," ","d","e","t","e","c","t","e",
                   "d",":"," ">>

\* C12: for a stored file under /blueprints/ or /contracts/ that Python
\* compiles and that assigns {}, [] or set() to a field self.<name> at the start
\* of a line that is no comment, validate_blueprint reports the critical
\* container-assignment issue, once for each container kind the file assigns,
\* and does not answer with the pass confirmation.
C12_ContainerAssignmentReported ==
    ( /\ BlueprintOutcome("validate_blueprint")
      /\ HasKey(unified_tools[1].project_files, outcome[1].path)
      /\ \/ StartsWith(outcome[1].path, <<"/","b","l","u","e","p","r","i","n","t","s","/">>)
         \/ StartsWith(outcome[1].path, <<"/","c","o","n","t","r","a","c","t","s","/">>)
      /\ python_syntax_error(StoredSource) = None
      /\ AssignedKinds(StoredSource) # {} )
        => /\ ~IsPassConfirmation(outcome[1].value)
           /\ Occurrences(outcome[1].value, CriticalIssue)
                  = Cardinality(AssignedKinds(StoredSource))

\* validate_blueprint has answered for a file that assigns a dict to a field on
\* two lines, and has reported the issue once
C12_Witness ==
    /\ BlueprintOutcome("validate_blueprint")
    /\ HasKey(unified_tools[1].project_files, outcome[1].path)
    /\ StoredSource = <<"s","e","l","f",".","x"," ","="," ","{","}","\n","s","e","l","f",".","x"," ","="," ","{",
                        "}">>
    /\ Occurrences(outcome[1].value, CriticalIssue) = 1

-----------------------------------------------------------------------------
(* Properties of the sandbox tools, checked under SpecSandbox *)

SandboxToolNames ==
    {"run_command", "get_sandbox_logs", "restart_dev_server", "bootstrap_nextjs_project",
     "download_sandbox_files"}

\* this step is a call of a sandbox tool of the turn
SandboxToolStep ==
    /\ outcome' # None
    /\ outcome'[1].op \in SandboxToolNames
    /\ Len(unified_tools'[1].tool_calls) = Len(unified_tools[1].tool_calls) + 1

\* the sandbox fails the call of this step: the turn has no project id or no
\* sandbox tools, no sandbox (for the logs, no process) is registered for the
\* project, the connection to the registered sandbox fails, or the sandbox
\* does not carry out what it is asked; bootstrap creates the sandbox it
\* misses, and fails when that fails
SandboxFails ==
    LET tools == unified_tools[1]
        service == beam_service[1]
        project_id == tools.project_id
        sdk == outcome'[1].sdk
        op == outcome'[1].op
        connected == HasKey(service.sandboxes, project_id) /\ sdk.connects[1]
    IN  \/ project_id = <<>>
        \/ ~tools.enable_dapp_tools
        \/ ~sdk.exec /\ (op = "get_sandbox_logs" => HasKey(service.processes, project_id))
        \/ op = "get_sandbox_logs" /\ ~HasKey(service.processes, project_id)
        \/ op \in {"run_command", "restart_dev_server", "download_sandbox_files"} /\ ~connected
        \/ /\ op = "bootstrap_nextjs_project"
           /\ \/ ~connected /\ (sdk.sandbox_id = None \/ ~sdk.connects[2])
              \/ ~sdk.connects[3]

\* a result that tells of a failure
IsErrorString(text) ==
    \/ Contains(text, <<"E","r","r","o","r">>)
    \/ Contains(text, <<"N","o"," ","a","c","t","i","v","e"," ","p","r","o","c","e","s","s"," ","f","o","u","n",
                        "d">>)
    \/ StartsWith(text, CrossMark)

\* C13: a call of run_command, get_sandbox_logs, restart_dev_server,
\* bootstrap_nextjs_project or download_sandbox_files never raises; when the
\* sandbox fails it (no sandbox registered, reconnect failure, remote failure,
\* missing project id) the call returns an error string and leaves the files of
\* the turn as they were, and the turn goes on.
C13_SandboxFailuresReturned ==
    [][SandboxToolStep
        => /\ ~outcome'[1].raised
           /\ SandboxFails
                => /\ IsErrorString(outcome'[1].value)
                   /\ unified_tools'[1].project_files = unified_tools[1].project_files
                   /\ FileToolsFiles(unified_tools'[1]) = FileToolsFiles(unified_tools[1])
                   /\ pc' = pc]_vars

\* run_command failed for want of a sandbox, and the write_file the agent
\* called next was carried out
C13_Witness ==
    /\ pc = "sandbox"
    /\ Len(unified_tools[1].tool_calls) = 2
    /\ unified_tools[1].tool_calls[1].tool = "run_command"
    /\ unified_tools[1].tool_calls[1].result
           = <<"E","r","r","o","r"," ","r","u","n","n","i","n","g"," ","c","o","m","m","a","n","d",":",
               " ","N","o"," ","s","a","n","d","b","o","x"," ","f","o","u","n","d"," ","f","o","r"," ",
               "p","r","o","j","e","c","t"," ","p">>
    /\ unified_tools[1].tool_calls[2].tool = "write_file"
    /\ StartsWith(unified_tools[1].tool_calls[2].result, <<"U","p","d","a","t","e","d"," ","/","d","a","p","p","/","a">>)

-----------------------------------------------------------------------------
(* Properties of the shared file tools, checked under SpecRouter *)

RouterOutcome(op) == outcome # None /\ outcome[1].op = op

\* the store a shared file tool of the router works on
RouterStore == IF Router.file_tools # None THEN Router.file_tools[1].files
               ELSE Router.project_files

\* prefix with a slash at its end
AsDirectory(prefix) == IF EndsWith(prefix, <<"/">>) THEN prefix ELSE prefix \o <<"/">>

\* the stored paths under prefix, as what is left of them after the prefix
Remainders(store, prefix) ==
    { SubSeq(store[i][1], Len(AsDirectory(prefix)) + 1, Len(store[i][1])) :
        i \in { k \in 1..Len(store) : StartsWith(store[k][1], AsDirectory(prefix)) } }

ImmediateFiles(store, prefix) ==
    { rest \in Remainders(store, prefix) : ~Contains(rest, <<"/">>) }

Subdirectories(store, prefix) ==
    { Split(rest, "/")[1] : rest \in { r \in Remainders(store, prefix) : Contains(r, <<"/">>) } }

\* listing has the subdirectories, each once and in lexical order, and after
\* them the immediate files in lexical order
IsDirectoryListing(listing, store, prefix) ==
    /\ { <<listing[i].type, listing[i].name>> : i \in 1..Len(listing) }
         = ({"directory"} \X Subdirectories(store, prefix))
           \cup ({"file"} \X ImmediateFiles(store, prefix))
    /\ \A i, j \in 1..Len(listing) :
         i < j => \/ listing[i].type = "directory" /\ listing[j].type = "file"
                  \/ listing[i].type = listing[j].type
                     /\ StrLess(listing[i].name, listing[j].name)

\* C14: list_files(prefix) returns the immediate children of the prefix only,
\* each subdirectory once and each immediate file, the directories first in
\* lexical order and then the files in lexical order, with the dApp tools
\* enabled and with them disabled
C14_ListsImmediateChildren ==
    RouterOutcome("list_files")
        => /\ ~outcome[1].raised
           /\ IsDirectoryListing(outcome[1].value, RouterStore, outcome[1].path)

\* the stored paths whose basename is that of path, ignoring case
SameBasenameIgnoringCase(store, path) ==
    { i \in 1..Len(store) : Lower(Basename(store[i][1])) = Lower(Basename(path)) }

\* text is the content of the stored file under a warning that names its path
IsWarnedContent(text, entry) ==
    /\ Len(text) > Len(entry[2])
    /\ EndsWith(text, entry[2])
    /\ Contains(SubSeq(text, 1, Len(text) - Len(entry[2])), entry[1])

\* the result says that the file was not found and names every stored path
IsNotFoundEnumerating(r, store) ==
    LET text == IF r.raised THEN r.value.msg ELSE r.value
    IN  /\ Contains(Lower(text), <<"n","o","t"," ","f","o","u","n","d">>)
        /\ \A i \in 1..Len(store) : Contains(text, store[i][1])

\* C15: read_file of a path that is not stored returns the content of a
\* stored file under a warning exactly when some stored path has the basename
\* of the request, ignoring case, and that file is the one returned; otherwise
\* it fails with a not-found result that names the stored paths
C15_BasenameFallback ==
    RouterOutcome("read_file") /\ ~HasKey(Router.project_files, outcome[1].path)
        => LET found == SameBasenameIgnoringCase(Router.project_files, outcome[1].path)
           IN  IF found # {}
               THEN /\ ~outcome[1].raised
                    /\ \E i \in found :
                          IsWarnedContent(outcome[1].value, Router.project_files[i])
               ELSE IsNotFoundEnumerating(outcome[1], Router.project_files)

-----------------------------------------------------------------------------
(* Properties of the tiers of the detector, checked under SpecDetect *)

\* some path of files is a match of the path analysis
SomePathMatch(files) ==
    SomePythonPathUnder(files, DetectedBlueprintRoots) \/ SomePathUnder(files, DappRoot)

\* some content of files has an indicator of the content scan
SomeContentIndicator(files) ==
    \E i \in 1..Len(files) :
        AnyIn(blueprint_indicators_list, files[i][2]) \/ AnyIn(dapp_indicators_list, files[i][2])

\* the request reaches the message tier
MessageTier ==
    /\ Len(chat_request.files) > 0
    /\ ~SomePathMatch(chat_request.files)
    /\ ~SomeContentIndicator(chat_request.files)

BlueprintKeywordCount == CountIn(blueprint_keywords, Lower(chat_request.message))
DappKeywordCount == CountIn(dapp_keywords, Lower(chat_request.message))

\* C16: a verdict at 0.70 is given only in the message tier; there a message
\* with a blueprint keyword and a dApp keyword is MIXED at 0.70 whatever the
\* two counts are, and BLUEPRINT (DAPP) at 0.70 is given exactly when the
\* count of the other side is zero and its own is positive
C16_MixedWhateverTheCounts ==
    Detected
        => /\ env_context[1].confidence = 70 => MessageTier
           /\ MessageTier
                => /\ BlueprintKeywordCount > 0 /\ DappKeywordCount > 0
                        => IsVerdict(MIXED, 70)
                   /\ IsVerdict(BLUEPRINT, 70)
                        <=> BlueprintKeywordCount > 0 /\ DappKeywordCount = 0
                   /\ IsVerdict(DAPP, 70)
                        <=> DappKeywordCount > 0 /\ BlueprintKeywordCount = 0

\* C16's case: two blueprint keywords against one dApp keyword
C16_Witness ==
    /\ Detected
    /\ MessageTier
    /\ BlueprintKeywordCount = 2
    /\ DappKeywordCount = 1
    /\ IsVerdict(MIXED, 70)


\* the kind two sides give: MIXED for both, else the one that is there
KindOf(blueprint, dapp) ==
    IF blueprint /\ dapp THEN MIXED ELSE IF blueprint THEN BLUEPRINT ELSE DAPP

\* the verdict of the first step of the cascade that gives one
CascadeVerdict(files, message) ==
    LET blueprint_content == \E i \in 1..Len(files) : AnyIn(blueprint_indicators_list, files[i][2])
        dapp_content == \E i \in 1..Len(files) : AnyIn(dapp_indicators_list, files[i][2])
        blueprint_words == CountIn(blueprint_keywords, Lower(message)) > 0
        dapp_words == CountIn(dapp_keywords, Lower(message)) > 0
    IN  IF SomePathMatch(files)
        THEN <<KindOf(SomePythonPathUnder(files, DetectedBlueprintRoots),
                      SomePathUnder(files, DappRoot)), 95>>
        ELSE IF Len(files) = 0 THEN <<EMPTY, 95>>
        ELSE IF blueprint_content \/ dapp_content
        THEN <<KindOf(blueprint_content, dapp_content), 85>>
        ELSE IF blueprint_words \/ dapp_words
        THEN <<KindOf(blueprint_words, dapp_words), 70>>
        ELSE <<EMPTY, 50>>

\* files with every content replaced by content
WithContent(files, content) == [i \in 1..Len(files) |-> <<files[i][1], content>>]

VerdictOf(context) == <<context.env_type, context.confidence>>

\* C20: the verdict is that of the first step, in the order path analysis
\* (0.95), empty file set (EMPTY, 0.95), content scan (0.85), message intent
\* (0.70), that gives one, and EMPTY at 0.50 if none does; with a path match
\* it is the verdict of the same paths with empty contents and no message,
\* with a content indicator the verdict of the same files with no message
C20_OrderedCascade ==
    Detected
        => /\ VerdictOf(env_context[1])
                = CascadeVerdict(chat_request.files, chat_request.message)
           /\ SomePathMatch(chat_request.files)
                => VerdictOf(detect_environment(WithContent(chat_request.files, <<>>), <<>>))
                     = VerdictOf(env_context[1])
           /\ SomeContentIndicator(chat_request.files)
                => VerdictOf(detect_environment(chat_request.files, <<>>))
                     = VerdictOf(env_context[1])

\* C20's case: blueprint content and a dApp message, no path match
C20_Witness ==
    /\ Detected
    /\ ~SomePathMatch(chat_request.files)
    /\ SomeContentIndicator(chat_request.files)
    /\ DappKeywordCount > 0
    /\ BlueprintKeywordCount = 0
    /\ IsVerdict(BLUEPRINT, 85)

-----------------------------------------------------------------------------
(* Properties of the manual override, checked under SpecForced *)

\* the turn of a request with force_environment came to its tools
ForcedTurn == chat_request.force_environment # None /\ unified_tools # None

ForcedKind == [env_type |-> chat_request.force_environment[1]]

\* C19: when a request supplies force_environment, the kind the response
\* reports and the blueprint and dApp tools that are enabled are those of the
\* forced kind, not those of the kind detected from the files and the message
C19_ForcedEnvironmentWins ==
    ForcedTurn
        => /\ Router.enable_blueprint_tools = should_enable_blueprint_tools(ForcedKind)
           /\ Router.enable_dapp_tools = should_enable_dapp_tools(ForcedKind)
           /\ (response # None /\ response[1].success)
                => response[1].environment = chat_request.force_environment[1]

-----------------------------------------------------------------------------
(* Properties of the sandbox handles, checked under SpecBeam *)

\* the handle of project_id in service, None when it has none
HandleOf(service, project_id) ==
    IF HasKey(service.sandboxes, project_id) THEN <<Get(service.sandboxes, project_id)>>
    ELSE None

\* a Sandbox().connect of the call that has just ended failed
ReconnectFailed(call) == \E k \in DOMAIN call.sdk.connects : ~call.sdk.connects[k]

\* C18: once sandboxes[p] is set, no operation replaces it with a different
\* handle, and the entry is removed only when a reconnect to it fails
C18_HandleReusedUntilReconnectFails ==
    [][\A project_id \in ProjectIds :
          HandleOf(beam_service[1], project_id) # None
              => \/ HandleOf(beam_service'[1], project_id)
                      = HandleOf(beam_service[1], project_id)
                 \/ /\ outcome'[1].path = project_id
                    /\ ReconnectFailed(outcome'[1])]_vars

-----------------------------------------------------------------------------
(* Properties of two concurrent turns, checked under SpecTurns *)

\* the instance a turn has after the tool calls of parts, made one after the
\* other on the instance tools with nothing else running
RECURSIVE RunAlone(_, _)
RunAlone(tools, parts) ==
    IF Len(parts) = 0 THEN tools
    ELSE IF "args" \notin DOMAIN Head(parts) THEN RunAlone(tools, Tail(parts))
    ELSE RunAlone(LocalToolCall(tools, Head(parts).tool_name, Head(parts).args).self,
                  Tail(parts))

\* what turn i has when it runs alone on its request and makes its tool calls
Alone(i) ==
    LET files == heap[RequestFilesRef(i)]
        context == detect_environment(files, chat_request[i].message)
    IN  RunAlone(UnifiedTools(files, chat_request[i].project_id,
                              should_enable_blueprint_tools(context),
                              should_enable_dapp_tools(context)),
                 messages[i])

\* turn i has the file stores, the tool-call log and the updated files of
\* the turn that runs alone
Isolated(i) ==
    unified_tools[i] # None
        => /\ RouterOf(i) = Alone(i)
           /\ (response[i] # None /\ response[i][1].success)
                => response[i][1].updated_files
                     = updated_files(Alone(i), heap[RequestFilesRef(i)])

\* C17: under every interleaving of the local file tool calls of two turns,
\* each turn's file store, tool-call log and updated files are those of the
\* turn running alone, and no step changes the mapping of files that came
\* with either request
C17_TurnsAreIsolated ==
    /\ [](\A i \in TurnIds : Isolated(i))
    /\ [][\A i \in TurnIds : heap'[RequestFilesRef(i)] = heap[RequestFilesRef(i)]]_vars

\* C17's case: two turns of the same project and the same files, both ended,
\* one wrote /dapp/a and /blueprints/b.py and the other changed no file
C17_Witness ==
    /\ pc = [i \in TurnIds |-> "done"]
    /\ heap[RequestFilesRef(1)] = heap[RequestFilesRef(2)]
    /\ response[1] # None /\ response[1][1].success
    /\ response[2] # None /\ response[2][1].success
    /\ Keys(response[1][1].updated_files) = << <<"/","b","l","u","e","p","r","i","n","t","s","/","b",".","p","y">>, <<"/","d","a","p","p","/","a">> >>
    /\ Len(messages[2]) > 0
    /\ response[2][1].updated_files = <<>>

-----------------------------------------------------------------------------
(* C21, checked under Spec *)

\* C21: the tool_calls of the response of a turn that ran to its end are the
\* router's own log: one record for every tool invocation of the turn, in the
\* order of the invocations, and no invocation twice.
C21_ToolCallsAreTheLog ==
    (pc = "done" /\ response # None /\ response[1].success)
        => /\ response[1].tool_calls = tracked_tool_calls(unified_tools[1])
           /\ 2 * Len(response[1].tool_calls) = Len(messages)

-----------------------------------------------------------------------------
(* C22, checked under SpecStream *)

\* C22: the streaming endpoint exposes to the agent the tools the
\* non-streaming endpoint exposes for the same request, whatever the verdict.
C22_SameToolsAsUnifiedChat ==
    pc = "running"
        => agent_tools = RegisteredTools(should_enable_blueprint_tools(env_context[1]),
                                         should_enable_dapp_tools(env_context[1]))

-----------------------------------------------------------------------------
(* C23, checked under SpecRemap *)

\* C23: a file of the project under /dapp/ that upload_files wrote to the
\* sandbox comes back from download_files under the path it had, also when the
\* path holds a later /app/ or /dapp/ segment.
C23_RemapRoundTrip ==
    (pc = "frontend again" /\ StartsWith(file_tools[1][1], <<"/","d","a","p","p","/">>))
        => response[1] = file_tools

-----------------------------------------------------------------------------
(* C24, checked under Spec *)

\* the paths the turn holds under one of the four roots, written in the turn or
\* given with the request
HeldPaths(tools) ==
    { p \in Range(Keys(LiveStore(tools))) : UnderDapp(p) \/ UnderBlueprintRoots(p) }

\* the line of a path in the output of get_project_structure
Rendered(output, p) == Contains(output, <<" "," ">> \o p \o <<"\n">>)

RendersHeldPaths ==
    (Called /\ LastCall.tool_name = "get_project_structure")
        => \A p \in HeldPaths(Router) : Rendered(LastReturn.content, p)

\* C24: the output of get_project_structure shows every path the turn holds
\* under /blueprints/, /contracts/, /tests/ or /dapp/, those written earlier in
\* the turn included, and the call changes no file.
C24_StructureRendersTheStore ==
    /\ []RendersHeldPaths
    /\ [][(pc = "running" /\ Len(messages') > Len(messages)
           /\ messages'[Len(messages') - 1].tool_name = "get_project_structure")
          => /\ unified_tools'[1].project_files = unified_tools[1].project_files
             /\ unified_tools'[1].file_tools = unified_tools[1].file_tools]_vars

\* the same for the paths of project_files under /blueprints/, /contracts/ and
\* /dapp/ alone
RendersProjectFiles ==
    (Called /\ LastCall.tool_name = "get_project_structure")
        => \A p \in Range(Keys(ProjectFiles(Router))) :
            (UnderDapp(p) \/ \E prefix \in DetectedBlueprintRoots : StartsWith(p, prefix))
                => Rendered(LastReturn.content, p)

-----------------------------------------------------------------------------
(* C25, checked under SpecNextTurn *)

\* the second turn is about to run its agent on a project of one file; the
\* project was empty and write_file is the one tool of these turns, so the file
\* is that of the first write that succeeded
FirstWrite ==
    /\ pc = "running"
    /\ outcome = <<"next turn">>
    /\ Len(messages) = 0
    /\ Len(chat_request.files) = 1

\* the path of that file
WrittenPath == chat_request.files[1][1]

OffersBlueprintOnly == agent_tools = SharedToolNames \cup BlueprintToolNames

OffersDappOnly == agent_tools = SharedToolNames \cup DappToolNames

\* C25 as stated: after the first successful write of a turn on an empty
\* project the file set is BLUEPRINT when the write was under /blueprints/,
\* /contracts/ or /tests/ and DAPP when it was under /dapp/, and the next turn
\* offers that capability set alone.  Not so for a write under /tests/ or of a
\* path without the .py suffix.
C25_FirstWriteUnderAnyRoot ==
    FirstWrite
        => /\ UnderBlueprintRoots(WrittenPath)
                => env_context[1].env_type = BLUEPRINT /\ OffersBlueprintOnly
           /\ UnderDapp(WrittenPath)
                => env_context[1].env_type = DAPP /\ OffersDappOnly

\* C25 amended: after the first successful write of a turn on an empty project
\* the file set is BLUEPRINT at 0.95 when the path is under /blueprints/ or
\* /contracts/ and ends in .py, and DAPP at 0.95 when it is under /dapp/,
\* whatever the next message is, and the next turn is offered that one
\* capability set; a write under /tests/ or of a path without .py is not
\* classified by its path.
C25_FirstWriteDisambiguates ==
    FirstWrite
        => LET python == /\ EndsWith(WrittenPath, <<".","p","y">>)
                         /\ \E prefix \in DetectedBlueprintRoots :
                               StartsWith(WrittenPath, prefix)
           IN  /\ python => IsVerdict(BLUEPRINT, 95) /\ OffersBlueprintOnly
               /\ UnderDapp(WrittenPath) => IsVerdict(DAPP, 95) /\ OffersDappOnly
               /\ (~python /\ ~UnderDapp(WrittenPath)) => env_context[1].confidence # 95

\* C25's case: the first turn wrote /dapp/a and nothing else, and the second
\* turn, whose message asks for a blueprint, is offered the dApp tools alone
C25_Witness ==
    /\ FirstWrite
    /\ WrittenPath = <<"/","d","a","p","p","/","a">>
    /\ chat_request.message = <<"C","o","m","p","i","l","e"," ","c","t","x">>
    /\ OffersDappOnly

-----------------------------------------------------------------------------
(* C26, checked under Spec *)

\* the entries of a store whose path is under one of the prefixes
EntriesUnder(store, prefixes) ==
    SelectSeq(store, LAMBDA e : \E prefix \in prefixes : StartsWith(e[1], prefix))

\* the files of the project after the turn: those of the request with the
\* updated files of the response
FilesAfterTurn == Update(chat_request.files, response[1].updated_files)

\* a BLUEPRINT turn has no tool that reaches the sandbox service, has called
\* none, and its response carries no sandbox URL; the project it leaves is
\* BLUEPRINT again and not MIXED
BlueprintTurnConfined ==
    (unified_tools # None /\ env_context[1].env_type = BLUEPRINT)
        => /\ ~ReachesBeam(Router)
           /\ agent_tools \cap DappToolNames = {}
           /\ \A i \in 1..Len(messages) : messages[i].tool_name \notin DappToolNames
           /\ EntriesUnder(LiveStore(Router), DappRoot) = <<>>
           /\ (pc = "done" /\ response[1].success)
                => /\ response[1].sandbox_url = None
                   /\ EntriesUnder(FilesAfterTurn, DappRoot) = <<>>
                   /\ SomePythonPathUnder(chat_request.files, DetectedBlueprintRoots)
                        => detect_environment(FilesAfterTurn, chat_request.message).env_type
                           = BLUEPRINT

\* C26: in a turn whose verdict is BLUEPRINT no tool call adds or changes a
\* path under /dapp/ or reaches the sandbox service, and in a turn whose verdict
\* is DAPP no tool call adds or changes a path under /blueprints/, /contracts/
\* or /tests/; a project that is BLUEPRINT by its paths is BLUEPRINT, not MIXED,
\* after the turn.
C26_CapabilityConfinement ==
    /\ []BlueprintTurnConfined
    /\ [][(pc = "running" /\ pc' = "running")
          => /\ env_context[1].env_type = BLUEPRINT
                => EntriesUnder(LiveStore(unified_tools'[1]), DappRoot)
                   = EntriesUnder(LiveStore(unified_tools[1]), DappRoot)
             /\ env_context[1].env_type = DAPP
                => EntriesUnder(LiveStore(unified_tools'[1]), BlueprintRoots)
                   = EntriesUnder(LiveStore(unified_tools[1]), BlueprintRoots)]_vars

\* C26's case: in a BLUEPRINT turn the agent wrote to /dapp/a and was refused,
\* in a project that holds no such file
C26_Witness ==
    /\ pc = "running"
    /\ env_context[1].env_type = BLUEPRINT
    /\ Called
    /\ LastCall.tool_name = "write_file"
    /\ Get(LastCall.args, "path") = <<"/","d","a","p","p","/","a">>
    /\ IsRejection(LastReturn.content)
    /\ ~HasKey(LiveStore(Router), <<"/","d","a","p","p","/","a">>)

-----------------------------------------------------------------------------
(* C27, checked under SpecBeam *)

\* C27: whenever a project has a sandbox registered, the process handle
\* tracked for it and the URL cached for it are those of that sandbox; so
\* after a sandbox was lost and upload_files created a new one, the dev server
\* runs in the new sandbox and no handle of the lost one is kept.
C27_RegistryConsistent ==
    \A project_id \in ProjectIds :
        LET service == beam_service[1]
        IN  HasKey(service.sandboxes, project_id)
                => /\ HasKey(service.processes, project_id)
                        => Get(service.processes, project_id).sandbox
                           = Get(service.sandboxes, project_id)
                   /\ HasKey(service.urls, project_id)
                        => Get(service.urls, project_id)
                           = ExposedUrl(Get(service.sandboxes, project_id))

-----------------------------------------------------------------------------
(* C28, checked under SpecTokens *)

\* the tokens recorded under a key of Redis
Recorded(key) == IF heap.redis[1][key] = None THEN 0 ELSE heap.redis[1][key][1].value

\* C28: whatever the interleaving of the requests, the tokens recorded for an
\* IP in a time bucket are at most the limit of an IP, and the tokens recorded
\* for all in a bucket at most the global limit.
C28_TokenBudgetKept ==
    heap.redis # None
        => \A b \in 0..Bucket(MaxTime) :
            /\ \A ip \in ClientIps : Recorded(IpKey(ip, b)) <= RATE_LIMIT_IP_TOKENS
            /\ Recorded(GlobalKey(b)) <= RATE_LIMIT_GLOBAL_TOKENS

-----------------------------------------------------------------------------
(* C29, checked under SpecStream *)

\* a line of the stream is a finish event
IsFinishLine(line) == StartsWith(line, <<"d",":">>)

\* the turn of the stream is over: the generator returned
StreamEnded == pc = "done" /\ outcome # None

\* the stream has one finish event, and it is its last line
OneFinishEventLast ==
    StreamEnded
        => /\ Len(response) >= 1
           /\ \A i \in 1..Len(response) : IsFinishLine(response[i]) <=> i = Len(response)

\* C29: a stream that ended has exactly one finish event, as its last line;
\* the finishReason of it is "error" when the turn failed (model not
\* configured, agent run raised, setup raised) and "stop" when the agent ran
\* to completion and its output was streamed.
C29_FinishReasonTellsFailure ==
    /\ OneFinishEventLast
    /\ StreamEnded
        => response[Len(response)]
            = FinishLine(IF outcome[1] = "completed" THEN <<"s","t","o","p">> ELSE <<"e","r","r","o","r">>)

-----------------------------------------------------------------------------
(* C30, checked under SpecRequests *)

\* the calls before the i-th that were admitted for its IP and are inside the
\* window at its time
AdmittedInWindow(i) ==
    { j \in 1..(i - 1) : /\ messages[j].ip = messages[i].ip
                         /\ messages[j].admitted
                         /\ messages[i].now - messages[j].now < RATE_LIMIT_WINDOW }

\* the admitted calls of an IP at the times t, t+1, ... before t + window
AdmittedFrom(ip, t) ==
    { j \in 1..Len(messages) : /\ messages[j].ip = ip
                               /\ messages[j].admitted
                               /\ t <= messages[j].now
                               /\ messages[j].now - t < RATE_LIMIT_WINDOW }

\* the timestamps the limiter holds for an IP
Timestamps(ip) ==
    IF HasKey(heap.simple_rate_limiter.requests, ip)
    THEN Get(heap.simple_rate_limiter.requests, ip) ELSE <<>>

\* the times of the admitted calls of an IP, in the order of the calls
AdmittedTimes(ip) ==
    LET admitted == SelectSeq(messages, LAMBDA call : call.ip = ip /\ call.admitted)
    IN  [j \in 1..Len(admitted) |-> admitted[j].now]

\* C30: with the clock never going back, (a) the calls admitted for an IP in
\* an interval shorter than the window are at most the limit; (b) a rejected
\* call is not recorded: the limiter holds timestamps of admitted calls only;
\* (c) a call is admitted exactly when fewer than the limit of the admitted
\* calls of its IP are inside the window, so it is admitted again once that is
\* the case; (d) which depends on the calls of the same IP only.
C30_SlidingWindow ==
    /\ \A ip \in ClientIps : \A t \in 0..MaxTime :
            Cardinality(AdmittedFrom(ip, t)) <= RATE_LIMIT_IP_REQUESTS
    /\ \A ip \in ClientIps :
            LET held == Timestamps(ip)
                times == AdmittedTimes(ip)
            IN  /\ Len(held) <= Len(times)
                /\ held = SubSeq(times, Len(times) - Len(held) + 1, Len(times))
    /\ \A i \in 1..Len(messages) :
            messages[i].admitted
                <=> Cardinality(AdmittedInWindow(i)) < RATE_LIMIT_IP_REQUESTS

\* an IP was rejected while the other was admitted at the same time, and was
\* admitted again later
C30_Witness ==
    \E i, j, k \in 1..Len(messages) :
        /\ i < k
        /\ messages[i].ip = messages[k].ip
        /\ ~messages[i].admitted
        /\ messages[k].admitted
        /\ messages[j].ip # messages[i].ip
        /\ messages[j].admitted
        /\ messages[j].now = messages[i].now

====
